---- MODULE Spec2Model ----
(***************************************************************************)
(* Layout-Optimizer: the constraint program built by layout_optimizer.py,  *)
(* the solver call, and the emission of placement.csv / layout.svg.        *)
(*                                                                         *)
(* One run of the script is a behaviour: the configuration and the booth   *)
(* list are read, the constraint model is built, the solver returns a      *)
(* status and (on success) an assignment of every decision variable that   *)
(* satisfies every constraint added to the model, the placements are       *)
(* extracted and the output files are written.                             *)
(*                                                                         *)
(* Lengths are in grid units (one unit stands for 1000 mm).                *)
(***************************************************************************)
EXTENDS Integers, Sequences, FiniteSets, TLC

VARIABLES
    pc,                 \* position of the script
    config,             \* config.json after parsing
    booths,             \* rows of booths.csv
    status,             \* solver.Solve(model)
    sol,                \* solver.Value(...) of the decision variables
    placements,         \* the extracted placement rows
    placement_csv,      \* file placement.csv
    placement_prev_csv, \* file placement.prev.csv
    layout_svg,         \* file layout.svg
    err,                \* the exception that ended the run, if any
    history,            \* the successive contents of placement.csv, oldest first
    cpc,                \* position of svg2config.py
    svg_root,           \* the drawing svg2config.py reads
    cfg                 \* the configuration svg2config.py builds

compVars == <<cpc, svg_root, cfg>>

vars == <<pc, config, booths, status, sol, placements,
          placement_csv, placement_prev_csv, layout_svg, err, history, compVars>>

(***************************************************************************)
(* Bounds of the explored inputs.                                          *)
(***************************************************************************)
MaxRoomW == 4
MaxRoomH == 3
MaxSide == 2
MaxAisle == 1
MaxBand == 1
MaxFront == 1
MaxGenerations == 3

(***************************************************************************)
(* Geometry of one booth's assignment a = [x, y, rot, w_eff, h_eff, ...].  *)
(***************************************************************************)
right_edge(a) == a.x + a.w_eff
top_edge(a) == a.y + a.h_eff
cx2(a) == 2 * a.x + a.w_eff
cy2(a) == 2 * a.y + a.h_eff

Min2(p, q) == IF p <= q THEN p ELSE q
Max2(p, q) == IF p >= q THEN p ELSE q
Abs(v) == IF v < 0 THEN -v ELSE v

\* the domains of x_i, y_i, rot_i, w_eff_i, h_eff_i
VarDomains(c) ==
    {[x |-> x, y |-> y, rot |-> r, w_eff |-> we, h_eff |-> he] :
        x \in 0..c.room_w, y \in 0..c.room_h, r \in {0, 1},
        we \in 0..c.room_w, he \in 0..c.room_h}

\* we == rot*h + (1-rot)*w, he == rot*w + (1-rot)*h
EffSize_swapped(c, b, a) ==
    /\ a.w_eff = a.rot * b.w + (1 - a.rot) * b.h
    /\ a.h_eff = a.rot * b.h + (1 - a.rot) * b.w

EffSize(c, b, a) ==
    /\ a.w_eff = a.rot * b.h + (1 - a.rot) * b.w
    /\ a.h_eff = a.rot * b.w + (1 - a.rot) * b.h

\* wall-band indicators: two-way implications, so each is determined
band_bottom(c, a) == a.y <= c.wall_band
band_top(c, a) == top_edge(a) >= c.room_h - c.wall_band
band_left(c, a) == a.x <= c.wall_band
band_right_origin(c, a) == a.x >= c.room_w - c.wall_band
band_right(c, a) == right_edge(a) >= c.room_w - c.wall_band

\* the option enforce_outer_wall_band ignored
EnforceOuterBand_never(c, a) == TRUE

EnforceOuterBand(c, a) ==
    c.enforce_outer_band =>
        (band_bottom(c, a) \/ band_top(c, a) \/ band_left(c, a) \/ band_right(c, a))

\* the booth may not leave the hall
Containment_strict(c, a) ==
    /\ right_edge(a) < c.room_w
    /\ top_edge(a) < c.room_h

Containment(c, a) ==
    /\ right_edge(a) <= c.room_w
    /\ top_edge(a) <= c.room_h

\* pairwise non-overlap with the aisle: one of left/right/below/above is chosen
NonOverlap_noaisle(c, ai, aj) ==
    \/ right_edge(ai) <= aj.x
    \/ right_edge(aj) <= ai.x
    \/ top_edge(ai) <= aj.y
    \/ top_edge(aj) <= ai.y

NonOverlap(c, ai, aj) ==
    \/ right_edge(ai) + c.aisle <= aj.x
    \/ right_edge(aj) + c.aisle <= ai.x
    \/ top_edge(ai) + c.aisle <= aj.y
    \/ top_edge(aj) + c.aisle <= ai.y

\* preferred rectangle: hard rows are contained, soft rows only earn a bonus
PrefArea_lowerleft(b, a) ==
    (b.pref # <<>> /\ b.pref_hard) =>
        /\ a.x >= b.pref[1]
        /\ a.y >= b.pref[2]

PrefArea(b, a) ==
    (b.pref # <<>> /\ b.pref_hard) =>
        /\ a.x >= b.pref[1]
        /\ a.y >= b.pref[2]
        /\ right_edge(a) <= b.pref[3]
        /\ top_edge(a) <= b.pref[4]

(***************************************************************************)
(* Inner walls and forbidden zones.                                        *)
(***************************************************************************)
\* one inner wall w = [p1, p2, attachable]: the booth may not straddle it
InnerWallClear_minspan(w, a) ==
    LET x1 == w.p1[1]
        y1 == w.p1[2]
        x2 == w.p2[1]
        y2 == w.p2[2]
        xmin == Min2(x1, x2)
        xmax == Max2(x1, x2)
        ymin == Min2(y1, y2)
        ymax == Max2(y1, y2)
    IN  IF x1 = x2
        THEN \/ right_edge(a) <= x1
             \/ a.x >= x1
             \/ a.y >= ymin
             \/ top_edge(a) <= ymin
        ELSE IF y1 = y2
        THEN \/ top_edge(a) <= y1
             \/ a.y >= y1
             \/ right_edge(a) <= xmin
             \/ a.x >= xmin
        ELSE TRUE

InnerWallClear(w, a) ==
    LET x1 == w.p1[1]
        y1 == w.p1[2]
        x2 == w.p2[1]
        y2 == w.p2[2]
        xmin == Min2(x1, x2)
        xmax == Max2(x1, x2)
        ymin == Min2(y1, y2)
        ymax == Max2(y1, y2)
    IN  IF x1 = x2
        THEN \/ right_edge(a) <= x1
             \/ a.x >= x1
             \/ a.y >= ymax
             \/ top_edge(a) <= ymin
        ELSE IF y1 = y2
        THEN \/ top_edge(a) <= y1
             \/ a.y >= y1
             \/ right_edge(a) <= xmin
             \/ a.x >= xmax
        ELSE TRUE

InnerWallNoCross(c, a) ==
    \A k \in DOMAIN c.inner_walls : InnerWallClear(c.inner_walls[k], a)

\* one forbidden zone z = <<rx1, ry1, rx2, ry2>>
NoGoClear_swapped(z, a) ==
    \/ right_edge(a) <= z[1]
    \/ a.x >= z[3]
    \/ top_edge(a) <= z[4]
    \/ a.y >= z[2]

NoGoClear(z, a) ==
    \/ right_edge(a) <= z[1]
    \/ a.x >= z[3]
    \/ top_edge(a) <= z[2]
    \/ a.y >= z[4]

NoGoZones(c, a) ==
    \A k \in DOMAIN c.no_go : NoGoClear(c.no_go[k], a)

(***************************************************************************)
(* Touch literals.  A literal only implies its geometry, so the solver is  *)
(* free to leave it false where the geometry holds.                        *)
(***************************************************************************)
TouchNames == {"left", "right", "bottom", "top"}

\* a touch literal that allows a gap of one unit
TouchImplies_gap(c, a, t) ==
    CASE t = "left" -> a.x <= 1
      [] t = "right" -> right_edge(a) >= c.room_w - 1
      [] t = "bottom" -> a.y <= 1
      [] t = "top" -> top_edge(a) >= c.room_h - 1

\* touch_left / touch_right / touch_bottom / touch_top
TouchImplies(c, a, t) ==
    CASE t = "left" -> a.x = 0
      [] t = "right" -> right_edge(a) = c.room_w
      [] t = "bottom" -> a.y = 0
      [] t = "top" -> top_edge(a) = c.room_h

IsVerticalWall(w) == w.p1[1] = w.p2[1]
IsHorizontalWall(w) == w.p1[1] # w.p2[1] /\ w.p1[2] = w.p2[2]

\* the literal families iw_touch_v / iw_touch_h, created only when inner walls
\* count as walls; side names follow the variable names of the script
IwLiterals(c) ==
    IF c.inner_as_wall /\ c.inner_walls # <<>>
    THEN {[w_idx |-> k, side |-> s] :
             k \in {j \in DOMAIN c.inner_walls : IsVerticalWall(c.inner_walls[j])},
             s \in {"v_left", "v_right"}}
         \cup
         {[w_idx |-> k, side |-> s] :
             k \in {j \in DOMAIN c.inner_walls : IsHorizontalWall(c.inner_walls[j])},
             s \in {"h_bottom", "h_top"}}
    ELSE {}

IwTouchImplies(c, a, l) ==
    LET w == c.inner_walls[l.w_idx]
        xmin == Min2(w.p1[1], w.p2[1])
        xmax == Max2(w.p1[1], w.p2[1])
        ymin == Min2(w.p1[2], w.p2[2])
        ymax == Max2(w.p1[2], w.p2[2])
    IN  CASE l.side = "v_left" ->
               right_edge(a) = w.p1[1] /\ cy2(a) >= 2 * ymin /\ cy2(a) <= 2 * ymax
          [] l.side = "v_right" ->
               a.x = w.p1[1] /\ cy2(a) >= 2 * ymin /\ cy2(a) <= 2 * ymax
          [] l.side = "h_bottom" ->
               a.y = w.p1[2] /\ cx2(a) >= 2 * xmin /\ cx2(a) <= 2 * xmax
          [] l.side = "h_top" ->
               top_edge(a) = w.p1[2] /\ cx2(a) >= 2 * xmin /\ cx2(a) <= 2 * xmax

\* the second literal family inner_touches has the same implications
InnerTouchesPossible(c, a) ==
    \E l \in IwLiterals(c) : IwTouchImplies(c, a, l)

curtain_required(c, b) ==
    c.rail_mode = "all" \/ (c.rail_mode = "if_wanted" /\ b.want_curtain)

(***************************************************************************)
(* Rotation: touch first, then band.                                       *)
(***************************************************************************)
v_touch_any(a) ==
    \/ "left" \in a.touch
    \/ "right" \in a.touch
    \/ \E l \in a.iw_touch : l.side \in {"v_left", "v_right"}

h_touch_any(a) ==
    \/ "bottom" \in a.touch
    \/ "top" \in a.touch
    \/ \E l \in a.iw_touch : l.side \in {"h_bottom", "h_top"}

v_band(c, a) == band_left(c, a) \/ band_right(c, a)
h_band(c, a) == band_bottom(c, a) \/ band_top(c, a)

RotationLogic(c, a) ==
    /\ (v_touch_any(a) /\ ~h_touch_any(a)) => a.rot = 1
    /\ (h_touch_any(a) /\ ~v_touch_any(a)) => a.rot = 0
    /\ (v_band(c, a) /\ ~h_band(c, a)) => a.rot = 1
    /\ (h_band(c, a) /\ ~v_band(c, a)) => a.rot = 0

(***************************************************************************)
(* Curtain rails: a rail-required booth has its back exactly on a rail.    *)
(***************************************************************************)
\* rails_cfg split into horizontal and vertical ones; diagonal rails are skipped
rails_h(c) ==
    {r \in DOMAIN c.rails_cfg : c.rails_cfg[r].p1[2] = c.rails_cfg[r].p2[2]}

rails_v(c) ==
    {r \in DOMAIN c.rails_cfg :
        /\ c.rails_cfg[r].p1[2] # c.rails_cfg[r].p2[2]
        /\ c.rails_cfg[r].p1[1] = c.rails_cfg[r].p2[1]}

\* attach_h_bottom / attach_h_top / attach_v_left / attach_v_right, per rail
attach_vars(c) ==
    {[kind |-> k, r |-> r] : k \in {"h_bottom", "h_top"}, r \in rails_h(c)}
    \cup {[kind |-> k, r |-> r] : k \in {"v_left", "v_right"}, r \in rails_v(c)}

AttachImplies_edgeonly(c, a, l) ==
    LET p1 == c.rails_cfg[l.r].p1
        p2 == c.rails_cfg[l.r].p2
    IN  CASE l.kind = "h_bottom" -> a.y = p1[2]
          [] l.kind = "h_top" -> top_edge(a) = p1[2]
          [] l.kind = "v_left" -> right_edge(a) = p1[1]
          [] l.kind = "v_right" -> a.x = p1[1]

AttachImplies(c, a, l) ==
    LET p1 == c.rails_cfg[l.r].p1
        p2 == c.rails_cfg[l.r].p2
        xmin == Min2(p1[1], p2[1])
        xmax == Max2(p1[1], p2[1])
        ymin == Min2(p1[2], p2[2])
        ymax == Max2(p1[2], p2[2])
    IN  CASE l.kind = "h_bottom" ->
               /\ a.x >= xmin /\ right_edge(a) <= xmax
               /\ a.y = p1[2]
               /\ a.rot = 0
          [] l.kind = "h_top" ->
               /\ a.x >= xmin /\ right_edge(a) <= xmax
               /\ top_edge(a) = p1[2]
               /\ a.rot = 0
          [] l.kind = "v_left" ->
               /\ a.y >= ymin /\ top_edge(a) <= ymax
               /\ right_edge(a) = p1[1]
               /\ a.rot = 1
          [] l.kind = "v_right" ->
               /\ a.y >= ymin /\ top_edge(a) <= ymax
               /\ a.x = p1[1]
               /\ a.rot = 1

\* sum(attach_vars) == 1 for a rail-required booth, every literal 0 otherwise
AttachCount_atleast(c, b, a) ==
    IF curtain_required(c, b)
    THEN Cardinality(a.att) >= 1
    ELSE TRUE

AttachCount(c, b, a) ==
    IF curtain_required(c, b)
    THEN Cardinality(a.att) = 1
    ELSE a.att = {}

\* the check made only under curtain_rail_mode "all"
BuildRaises_modeall(c, bs) ==
    \E i \in DOMAIN bs : c.rail_mode = "all" /\ attach_vars(c) = {}

\* model construction raises ValueError for a rail-required booth without
\* any attachment literal
BuildRaises(c, bs) ==
    \E i \in DOMAIN bs : curtain_required(c, bs[i]) /\ attach_vars(c) = {}

(***************************************************************************)
(* Hard wall contact of the booths that are not rail-required.             *)
(***************************************************************************)
WallContact_hardonly(c, b, a) ==
    (~curtain_required(c, b) /\ c.hard_wall) =>
        /\ a.touch # {} \/ InnerTouchesPossible(c, a)
        /\ a.touch # {} \/ a.iw_touch # {}

WallContact(c, b, a) ==
    (~curtain_required(c, b) /\ (c.hard_wall \/ c.wall_default_hard)) =>
        /\ a.touch # {} \/ InnerTouchesPossible(c, a)
        /\ a.touch # {} \/ a.iw_touch # {}

(***************************************************************************)
(* Outlet distance on doubled integers.                                    *)
(***************************************************************************)
man2(a, o) == Abs(cx2(a) - 2 * o[1]) + Abs(cy2(a) - 2 * o[2])

nearest2(c, a) ==
    CHOOSE d \in {man2(a, c.outlets[k]) : k \in DOMAIN c.outlets} :
        \A k \in DOMAIN c.outlets : d <= man2(a, c.outlets[k])

\* the bound taken on the distance itself
OutletDemand_undoubled(c, b, a) ==
    (c.outlets # <<>> /\ c.demand_hard_r > 0 /\ b.want_outlet) =>
        nearest2(c, a) <= c.demand_hard_r

OutletDemand(c, b, a) ==
    (c.outlets # <<>> /\ c.demand_hard_r > 0 /\ b.want_outlet) =>
        nearest2(c, a) <= 2 * c.demand_hard_r

(***************************************************************************)
(* Front clearance.                                                        *)
(***************************************************************************)
FrontDirs == {"right", "left", "up", "down"}

FrontActive(c) == c.front_mode = "hard" /\ c.front_clear > 0

left_act(c, a) == band_left(c, a) \/ "left" \in a.touch
right_act(c, a) == band_right(c, a) \/ "right" \in a.touch
bottom_act(c, a) == band_bottom(c, a) \/ "bottom" \in a.touch
top_act(c, a) == band_top(c, a) \/ "top" \in a.touch

\* the front of a rail-required booth left to the solver
FrontDirection_railfree(c, b, a) ==
    IF ~FrontActive(c)
    THEN a.fr = "none"
    ELSE /\ a.fr \in FrontDirs
         /\ IF curtain_required(c, b)
            THEN TRUE
            ELSE /\ (a.rot = 1 /\ left_act(c, a) /\ ~right_act(c, a)) => a.fr = "right"
                 /\ (a.rot = 1 /\ right_act(c, a) /\ ~left_act(c, a)) => a.fr = "left"
                 /\ (a.rot = 0 /\ bottom_act(c, a) /\ ~top_act(c, a)) => a.fr = "up"
                 /\ (a.rot = 0 /\ top_act(c, a) /\ ~bottom_act(c, a)) => a.fr = "down"
                 /\ (a.rot = 1 /\ ~left_act(c, a) /\ ~right_act(c, a)) => a.fr = "right"
                 /\ (a.rot = 0 /\ ~bottom_act(c, a) /\ ~top_act(c, a)) => a.fr = "up"

\* exactly one of fr_right / fr_left / fr_up / fr_down, fixed by the rail face
\* or by rotation and the active walls
FrontDirection(c, b, a) ==
    IF ~FrontActive(c)
    THEN a.fr = "none"
    ELSE /\ a.fr \in FrontDirs
         /\ IF curtain_required(c, b)
            THEN \A l \in a.att :
                    /\ l.kind = "h_bottom" => a.fr = "up"
                    /\ l.kind = "h_top" => a.fr = "down"
                    /\ l.kind = "v_right" => a.fr = "right"
                    /\ l.kind = "v_left" => a.fr = "left"
            ELSE /\ (a.rot = 1 /\ left_act(c, a) /\ ~right_act(c, a)) => a.fr = "right"
                 /\ (a.rot = 1 /\ right_act(c, a) /\ ~left_act(c, a)) => a.fr = "left"
                 /\ (a.rot = 0 /\ bottom_act(c, a) /\ ~top_act(c, a)) => a.fr = "up"
                 /\ (a.rot = 0 /\ top_act(c, a) /\ ~bottom_act(c, a)) => a.fr = "down"
                 /\ (a.rot = 1 /\ ~left_act(c, a) /\ ~right_act(c, a)) => a.fr = "right"
                 /\ (a.rot = 0 /\ ~bottom_act(c, a) /\ ~top_act(c, a)) => a.fr = "up"

\* booth aj stays out of the corridor of depth front_clear in front of ai
FrontCorridor_nodepth(c, ai, aj) ==
    /\ ai.fr \in {"right", "left"} =>
          \/ right_edge(aj) <= right_edge(ai)
          \/ aj.x >= ai.x
          \/ top_edge(aj) <= ai.y
          \/ aj.y >= top_edge(ai)
    /\ ai.fr \in {"up", "down"} =>
          \/ right_edge(aj) <= ai.x
          \/ aj.x >= right_edge(ai)
          \/ top_edge(aj) <= top_edge(ai)
          \/ aj.y >= ai.y

FrontCorridor(c, ai, aj) ==
    /\ ai.fr = "right" =>
          \/ right_edge(aj) <= right_edge(ai)
          \/ aj.x >= right_edge(ai) + c.front_clear
          \/ top_edge(aj) <= ai.y
          \/ aj.y >= top_edge(ai)
    /\ ai.fr = "left" =>
          \/ right_edge(aj) <= ai.x - c.front_clear
          \/ aj.x >= ai.x
          \/ top_edge(aj) <= ai.y
          \/ aj.y >= top_edge(ai)
    /\ ai.fr = "up" =>
          \/ right_edge(aj) <= ai.x
          \/ aj.x >= right_edge(ai)
          \/ top_edge(aj) <= top_edge(ai)
          \/ aj.y >= top_edge(ai) + c.front_clear
    /\ ai.fr = "down" =>
          \/ right_edge(aj) <= ai.x
          \/ aj.x >= right_edge(ai)
          \/ top_edge(aj) <= ai.y - c.front_clear
          \/ aj.y >= ai.y

(***************************************************************************)
(* The assignments of one booth that satisfy every constraint on it alone, *)
(* and the solutions: one assignment per booth, pairwise compatible.       *)
(***************************************************************************)
BoothGeometry(c, b) ==
    {g \in VarDomains(c) :
        /\ EffSize(c, b, g)
        /\ EnforceOuterBand(c, g)
        /\ Containment(c, g)
        /\ PrefArea(b, g)
        /\ InnerWallNoCross(c, g)
        /\ NoGoZones(c, g)
        /\ OutletDemand(c, b, g)}

\* the indicator inside_pref of a soft preferred rectangle: it implies the
\* containment; FALSE stands for a booth that has no such indicator
InsidePrefImplies(b, a) ==
    /\ b.pref # <<>> /\ ~b.pref_hard
    /\ a.x >= b.pref[1]
    /\ a.y >= b.pref[2]
    /\ right_edge(a) <= b.pref[3]
    /\ top_edge(a) <= b.pref[4]

BoothLiterals(c, b, g) ==
    {[x |-> g.x, y |-> g.y, rot |-> g.rot, w_eff |-> g.w_eff, h_eff |-> g.h_eff,
      touch |-> t, iw_touch |-> iw, att |-> at, fr |-> f, inside_pref |-> z] :
        t \in SUBSET {n \in TouchNames : TouchImplies(c, g, n)},
        iw \in SUBSET {l \in IwLiterals(c) : IwTouchImplies(c, g, l)},
        at \in SUBSET {l \in attach_vars(c) : AttachImplies(c, g, l)},
        f \in FrontDirs \cup {"none"},
        z \in {v \in BOOLEAN : v => InsidePrefImplies(b, g)}}

BoothAssignments(c, b) ==
    UNION {{a \in BoothLiterals(c, b, g) :
               /\ RotationLogic(c, a)
               /\ AttachCount(c, b, a)
               /\ WallContact(c, b, a)
               /\ FrontDirection(c, b, a)} : g \in BoothGeometry(c, b)}

PairOK(c, ai, aj) ==
    /\ NonOverlap(c, ai, aj)
    /\ FrontActive(c) => (FrontCorridor(c, ai, aj) /\ FrontCorridor(c, aj, ai))

RECURSIVE SolutionsUpTo(_, _, _)
SolutionsUpTo(c, bs, k) ==
    IF k = 0
    THEN {<<>>}
    ELSE {Append(s, a) : s \in SolutionsUpTo(c, bs, k - 1),
                         a \in BoothAssignments(c, bs[k])}

Solutions(c, bs) ==
    {s \in SolutionsUpTo(c, bs, Len(bs)) :
        \A i \in DOMAIN bs : \A j \in DOMAIN bs : i < j => PairOK(c, s[i], s[j])}

(***************************************************************************)
(* The objective.                                                          *)
(***************************************************************************)
\* a configured weight as the integer coefficient of the model
Weight(v) == v * 100

RECURSIVE SumOver(_, _)
SumOver(f, k) == IF k = 0 THEN 0 ELSE f[k] + SumOver(f, k - 1)

\* bbox_w + bbox_h of the enclosing box of all booths
bbox(s) ==
    LET x_min == CHOOSE v \in {s[i].x : i \in DOMAIN s} :
                     \A i \in DOMAIN s : v <= s[i].x
        x_max == CHOOSE v \in {right_edge(s[i]) : i \in DOMAIN s} :
                     \A i \in DOMAIN s : v >= right_edge(s[i])
        y_min == CHOOSE v \in {s[i].y : i \in DOMAIN s} :
                     \A i \in DOMAIN s : v <= s[i].y
        y_max == CHOOSE v \in {top_edge(s[i]) : i \in DOMAIN s} :
                     \A i \in DOMAIN s : v >= top_edge(s[i])
    IN  (x_max - x_min) + (y_max - y_min)

\* the maximum of the outer and inner touch literals of one booth
any_wall_touch(a) == IF a.touch # {} \/ a.iw_touch # {} THEN 1 ELSE 0

\* near_outlet: a two-way indicator of a booth inside the reserve radius
near(c, a) == IF nearest2(c, a) <= 2 * c.reserve_r THEN 1 ELSE 0

\* the terms one booth adds to the score
BoothScore(c, b, a) ==
    (IF c.prefer_wall /\ ~curtain_required(c, b)
     THEN Weight(c.weights.wall_contact_bonus) * any_wall_touch(a) ELSE 0)
    + (IF c.outlets # <<>> /\ b.want_outlet
       THEN 0 - Weight(c.weights.outlet_distance) * nearest2(c, a) ELSE 0)
    + (IF /\ c.outlets # <<>> /\ ~b.want_outlet
          /\ c.reserve_r > 0 /\ Weight(c.weights.outlet_repel_non_wanter) > 0
       THEN 0 - Weight(c.weights.outlet_repel_non_wanter) * near(c, a) * 1000 ELSE 0)
    + (IF b.pref # <<>> /\ ~b.pref_hard /\ a.inside_pref
       THEN Weight(c.weights.preferred_area_bonus) ELSE 0)

Objective(c, bs, s) ==
    (0 - Weight(c.weights.compactness) * bbox(s))
    + SumOver([i \in DOMAIN bs |-> BoothScore(c, bs[i], s[i])], Len(bs))

\* the solutions no other solution beats
Optimal(c, bs) ==
    LET S == Solutions(c, bs)
        best == CHOOSE v \in {Objective(c, bs, s) : s \in S} :
                    \A s \in S : v >= Objective(c, bs, s)
    IN  {s \in S : Objective(c, bs, s) = best}

(***************************************************************************)
(* Inputs: config.json and booths.csv.                                     *)
(***************************************************************************)
\* Python's None
None == "None"

\* the values the script falls back to when a requirement is missing
DefaultConfig(W, H) ==
    [room_w |-> W, room_h |-> H, wall_band |-> 0, aisle |-> 0,
     outlets |-> <<>>, rails_cfg |-> <<>>, no_go |-> <<>>, inner_walls |-> <<>>,
     rail_mode |-> "if_wanted", hard_wall |-> FALSE, wall_default_hard |-> TRUE,
     inner_as_wall |-> TRUE, enforce_outer_band |-> FALSE,
     front_clear |-> 0, front_mode |-> "hard", demand_hard_r |-> 0,
     prefer_wall |-> TRUE, reserve_r |-> 0, preferred_area_default |-> "soft",
     weights |-> [compactness |-> 3000, wall_contact_bonus |-> 500,
                  outlet_distance |-> 1, curtain_rail_match |-> 1,
                  outlet_repel_non_wanter |-> 0, preferred_area_bonus |-> 1000]]

\* a row of booths.csv without the optional columns, as the script reads it
Booth(w, h, wc) ==
    [w |-> w, h |-> h, want_outlet |-> FALSE, want_curtain |-> wc,
     pref_cells |-> <<None, None, None, None>>, pref_area_hard |-> None,
     pref |-> <<>>, pref_hard |-> FALSE]

\* the cell texts of the explored tables and what str.strip, str.lower and
\* int(float(.)) make of them
Stripped ==
    (" 2 " :> "2") @@ (" yes " :> "yes") @@ ("TRUE" :> "TRUE") @@ ("" :> "")
    @@ ("0" :> "0") @@ ("1" :> "1") @@ ("2" :> "2") @@ ("2.0" :> "2.0")
    @@ ("x" :> "x") @@ ("no" :> "no") @@ ("hard" :> "hard")

Lowered == ("TRUE" :> "true") @@ ("Hard" :> "hard")

lower(t) == IF t \in DOMAIN Lowered THEN Lowered[t] ELSE t

IntOfFloat == ("0" :> 0) @@ ("1" :> 1) @@ ("2" :> 2) @@ ("2.0" :> 2)

\* _to_int_or_none: <<>> stands for None
to_int_or_none(t) ==
    IF t = None THEN <<>>
    ELSE IF Stripped[t] = "" THEN <<>>
    ELSE IF Stripped[t] \in DOMAIN IntOfFloat THEN <<IntOfFloat[Stripped[t]]>>
    ELSE <<>>

\* the preferred rectangle of a row: all four bounds or none
pref_rects(cells) ==
    IF \E k \in 1..4 : to_int_or_none(cells[k]) = <<>>
    THEN <<>>
    ELSE [k \in 1..4 |-> to_int_or_none(cells[k])[1]]

PREF_DEFAULT_HARD(c) == lower(c.preferred_area_default) = "hard"

pref_hard(c, hard_flag) ==
    IF hard_flag = None \/ Stripped[hard_flag] = ""
    THEN PREF_DEFAULT_HARD(c)
    ELSE lower(Stripped[hard_flag]) \in {"1", "true", "yes"}

\* a row with its preferred-area columns
PrefRow(c, b, cells, hard_flag) ==
    [b EXCEPT !.pref_cells = cells, !.pref_area_hard = hard_flag,
              !.pref = pref_rects(cells), !.pref_hard = pref_hard(c, hard_flag)]

\* the 3 x 3 hall of the infeasibility scenario and the largest hall explored
Halls == {<<3, 3>>, <<MaxRoomW, MaxRoomH>>}
Sizes == {<<w, h>> : w \in 1..MaxSide, h \in 1..MaxSide}

Rail(x1, y1, x2, y2) == [p1 |-> <<x1, y1>>, p2 |-> <<x2, y2>>]
Wall(x1, y1, x2, y2) == [p1 |-> <<x1, y1>>, p2 |-> <<x2, y2>>, attachable |-> TRUE]

RailSets(W, H) ==
    {<<>>,
     <<Rail(0, H, W, H)>>,
     <<Rail(2, H, 2, 0)>>,
     <<Rail(0, 0, 2, 2)>>,
     <<Rail(1, 1, W, 1), Rail(0, 0, 0, H)>>}

WallSets(W, H) ==
    {<<>>,
     <<Wall(2, 0, 2, 2)>>,
     <<Wall(3, 1, 1, 1)>>,
     <<Wall(1, 0, 2, 2)>>,
     <<Wall(1, 0, 2, 2), Wall(2, 1, 2, H)>>}

ZoneSets(W, H) ==
    {<<>>,
     <<<<0, 0, 2, 1>>>>,
     <<<<1, 1, 2, 2>>, <<W - 1, 0, W, 1>>>>}

\* two plain booths packed into an empty hall
PackingInputs(W, H) ==
    {<<[DefaultConfig(W, H) EXCEPT !.aisle = A, !.wall_default_hard = dh],
       <<Booth(s[1], s[2], FALSE), Booth(2, 2, FALSE)>>>> :
        A \in 0..MaxAisle, dh \in BOOLEAN, s \in {<<1, 1>>, <<2, 2>>}}

\* one plain booth among inner walls
WallInputs(W, H) ==
    {<<[DefaultConfig(W, H) EXCEPT
            !.wall_band = B, !.inner_walls = iw,
            !.hard_wall = hw, !.wall_default_hard = FALSE, !.inner_as_wall = ia],
       <<Booth(s[1], s[2], FALSE)>>>> :
        B \in 0..MaxBand, iw \in WallSets(W, H),
        hw \in BOOLEAN, ia \in BOOLEAN, s \in Sizes}

\* one plain booth among forbidden zones
ZoneInputs(W, H) ==
    {<<[DefaultConfig(W, H) EXCEPT !.no_go = ng, !.wall_default_hard = dh],
       <<Booth(s[1], s[2], FALSE)>>>> :
        ng \in ZoneSets(W, H), dh \in BOOLEAN, s \in Sizes}

\* booths and curtain rails
RailInputs(W, H) ==
    {<<[DefaultConfig(W, H) EXCEPT !.rails_cfg = rl, !.rail_mode = rm], bs>> :
        rl \in RailSets(W, H), rm \in {"if_wanted", "all", "none"},
        bs \in {<<Booth(w, 1, wc)>> : w \in 1..MaxSide, wc \in BOOLEAN}}
    \cup
    {<<[DefaultConfig(W, H) EXCEPT
            !.rails_cfg = rl, !.rail_mode = rm, !.front_clear = F],
       <<Booth(2, 1, TRUE), Booth(1, 1, FALSE)>>>> :
        rl \in RailSets(W, H), rm \in {"if_wanted", "all", "none"},
        F \in 0..MaxFront}

\* two booths with a front corridor
FrontInputs(W, H) ==
    {<<[DefaultConfig(W, H) EXCEPT
            !.front_clear = F, !.front_mode = fm, !.wall_default_hard = dh],
       <<Booth(2, 1, FALSE), Booth(1, 1, FALSE)>>>> :
        F \in 1..MaxFront, fm \in {"hard", "none"}, dh \in BOOLEAN}

\* one booth and an outlet it wants or has to keep clear of
ServiceInputs(W, H) ==
    {<<[DefaultConfig(W, H) EXCEPT !.outlets = os, !.demand_hard_r = r],
       <<[Booth(w, 1, FALSE) EXCEPT !.want_outlet = TRUE]>>>> :
        os \in {<<<<1, 1>>>>, <<<<1, 1>>, <<W, H>>>>}, r \in 0..1, w \in 1..MaxSide}
    \cup
    {<<[DefaultConfig(W, H) EXCEPT !.outlets = <<<<1, 1>>>>, !.demand_hard_r = 1],
       <<Booth(2, 1, FALSE)>>>>}
    \cup
    {<<[DefaultConfig(W, H) EXCEPT
            !.outlets = <<<<1, 1>>>>, !.reserve_r = 1,
            !.weights.outlet_repel_non_wanter = 1],
       <<Booth(1, 1, FALSE)>>>>}

\* the preferred-area columns of the explored tables: a rectangle that holds
\* the booth, one too small for it, a blank bound, a bound that is no number
PrefCells ==
    {<<"0", "0", " 2 ", "2.0">>, <<"0", "0", "1", "1">>,
     <<"0", "", "2", "2">>, <<"0", "0", "x", "2">>}

PrefFlags == {None, "", "TRUE", " yes ", "1", "no", "hard"}

PrefConfig(W, H, d) ==
    [DefaultConfig(W, H) EXCEPT
        !.wall_default_hard = FALSE, !.preferred_area_default = d]

\* one booth with a preferred rectangle
PreferenceInputs(W, H) ==
    {<<PrefConfig(W, H, d),
       <<PrefRow(PrefConfig(W, H, d), Booth(2, 1, FALSE), cells, fl)>>>> :
        d \in {"soft", "Hard"}, cells \in PrefCells, fl \in PrefFlags}

\* one plain booth and an inner wall whose attachable flag is false
UnattachableInputs(W, H) ==
    {<<[DefaultConfig(W, H) EXCEPT
            !.inner_walls = <<[Wall(2, 0, 2, 2) EXCEPT !.attachable = FALSE]>>,
            !.hard_wall = hw, !.wall_default_hard = FALSE],
       <<Booth(1, 1, FALSE)>>>> : hw \in BOOLEAN}

\* booths.csv is read without a check of the sizes: a row may have width 0
DegenerateInputs(W, H) ==
    {<<[DefaultConfig(W, H) EXCEPT !.wall_default_hard = dh], bs>> :
        dh \in BOOLEAN,
        bs \in {<<Booth(0, 1, FALSE)>>,
                <<Booth(1, 1, FALSE), Booth(0, 1, FALSE)>>}}

\* one booth free to stand away from the walls, wall bands of either width,
\* with and without the obligation to stand in one
BandInputs(W, H) ==
    {<<[DefaultConfig(W, H) EXCEPT
            !.wall_band = B, !.enforce_outer_band = e,
            !.wall_default_hard = FALSE, !.front_clear = F],
       <<Booth(w, 1, FALSE)>>>> :
        B \in 0..MaxBand, e \in BOOLEAN, F \in 0..MaxFront, w \in 1..MaxSide}

\* two unit booths free to stand away from the walls, with a front corridor
CorridorPairInputs ==
    {<<[DefaultConfig(MaxRoomW, MaxRoomH) EXCEPT
            !.front_clear = 1, !.wall_default_hard = FALSE],
       <<Booth(1, 1, FALSE), Booth(1, 1, FALSE)>>>>}

Inputs ==
    CorridorPairInputs \cup
    UNION {PackingInputs(hl[1], hl[2]) \cup WallInputs(hl[1], hl[2])
           \cup ZoneInputs(hl[1], hl[2]) \cup RailInputs(hl[1], hl[2])
           \cup FrontInputs(hl[1], hl[2]) \cup DegenerateInputs(hl[1], hl[2])
           \cup UnattachableInputs(hl[1], hl[2]) \cup ServiceInputs(hl[1], hl[2])
           \cup PreferenceInputs(hl[1], hl[2]) \cup BandInputs(hl[1], hl[2])
           : hl \in Halls}

\* the working directory before the run
Absent == [exists |-> FALSE, rows |-> <<>>]
Stale(k) ==
    [exists |-> TRUE,
     rows |-> <<[id |-> 0 - k, x_mm |-> 0, y_mm |-> 0,
                 width_mm |-> 1, depth_mm |-> 1, rotated |-> 0]>>]

Directories ==
    {<<Absent, Absent, Absent>>,
     <<Stale(1), Stale(2), Stale(3)>>}

(***************************************************************************)
(* The run.                                                                *)
(***************************************************************************)
Init ==
    /\ pc = "start"
    /\ \E inp \in Inputs : config = inp[1] /\ booths = inp[2]
    /\ status = "NONE"
    /\ sol = <<>>
    /\ placements = <<>>
    /\ \E d \in Directories :
          /\ placement_csv = d[1]
          /\ placement_prev_csv = d[2]
          /\ layout_svg = d[3]
    /\ err = "none"
    /\ history = IF placement_csv.exists THEN <<placement_csv.rows>> ELSE <<>>
    /\ cpc = "idle" /\ svg_root = <<>> /\ cfg = <<>>

\* model construction up to the solver call
BuildModel ==
    /\ pc = "start"
    /\ ~BuildRaises(config, booths)
    /\ pc' = "built"
    /\ UNCHANGED <<config, booths, status, sol, placements,
                   placement_csv, placement_prev_csv, layout_svg, err>>
    /\ UNCHANGED <<history, compVars>>

BuildModelFails ==
    /\ pc = "start"
    /\ BuildRaises(config, booths)
    /\ pc' = "failed"
    /\ err' = "ValueError"
    /\ UNCHANGED <<config, booths, status, sol, placements,
                   placement_csv, placement_prev_csv, layout_svg>>
    /\ UNCHANGED <<history, compVars>>

\* what solver.Solve can return: a best solution with OPTIMAL, any solution
\* with FEASIBLE when the time limit ends the search, INFEASIBLE when there is
\* none, UNKNOWN when the time limit ends the search before a solution is
\* found, MODEL_INVALID when the library's validation rejects the model
SolverOutcomes(c, bs) ==
    LET S == Solutions(c, bs)
    IN  {[status |-> "FEASIBLE", sol |-> s] : s \in S}
        \cup (IF S = {} THEN {}
              ELSE {[status |-> "OPTIMAL", sol |-> s] : s \in Optimal(c, bs)})
        \cup (IF S = {} THEN {[status |-> "INFEASIBLE", sol |-> <<>>]} ELSE {})
        \cup {[status |-> "UNKNOWN", sol |-> <<>>],
              [status |-> "MODEL_INVALID", sol |-> <<>>]}

StatusOK_lax(st) == st # "INFEASIBLE"

StatusOK(st) == st \in {"OPTIMAL", "FEASIBLE"}

Solve ==
    /\ pc = "built"
    /\ \E r \in SolverOutcomes(config, booths) :
          /\ status' = r.status
          /\ sol' = r.sol
          /\ IF StatusOK(r.status)
             THEN pc' = "extract" /\ err' = err
             ELSE pc' = "failed" /\ err' = "RuntimeError"
    /\ UNCHANGED <<config, booths, placements,
                   placement_csv, placement_prev_csv, layout_svg>>
    /\ UNCHANGED <<history, compVars>>

b01(val) == IF val >= 1 THEN 1 ELSE 0

PlacementRow_swapped(i, a) ==
    [id |-> i, x_mm |-> a.x, y_mm |-> a.y,
     width_mm |-> a.h_eff, depth_mm |-> a.w_eff, rotated |-> b01(a.rot)]

PlacementRow(i, a) ==
    [id |-> i, x_mm |-> a.x, y_mm |-> a.y,
     width_mm |-> a.w_eff, depth_mm |-> a.h_eff, rotated |-> b01(a.rot)]

\* the three asserts without the one on the sizes
RangeAsserts_nosize(c, a) ==
    /\ 0 <= a.x /\ a.x <= c.room_w /\ 0 <= a.y /\ a.y <= c.room_h
    /\ a.x + a.w_eff <= c.room_w /\ a.y + a.h_eff <= c.room_h

RangeAsserts(c, a) ==
    /\ 0 <= a.x /\ a.x <= c.room_w /\ 0 <= a.y /\ a.y <= c.room_h
    /\ 1 <= a.w_eff /\ a.w_eff <= c.room_w /\ 1 <= a.h_eff /\ a.h_eff <= c.room_h
    /\ a.x + a.w_eff <= c.room_w /\ a.y + a.h_eff <= c.room_h

ExtractPlacements ==
    /\ pc = "extract"
    /\ IF \A i \in DOMAIN sol : RangeAsserts(config, sol[i])
       THEN /\ placements' = [i \in DOMAIN sol |-> PlacementRow(i, sol[i])]
            /\ pc' = "write"
            /\ err' = err
       ELSE /\ placements' = placements
            /\ pc' = "failed"
            /\ err' = "AssertionError"
    /\ UNCHANGED <<config, booths, status, sol,
                   placement_csv, placement_prev_csv, layout_svg>>
    /\ UNCHANGED <<history, compVars>>

\* the table is overwritten without the copy to placement.prev.csv
WritePlacement_nosnapshot ==
    /\ pc = "write"
    /\ placement_prev_csv' = placement_prev_csv
    /\ placement_csv' = [exists |-> TRUE, rows |-> placements]
    /\ history' = Append(history, placements)
    /\ pc' = "draw"
    /\ UNCHANGED <<config, booths, status, sol, placements, layout_svg, err>>
    /\ UNCHANGED compVars

WritePlacement ==
    /\ pc = "write"
    /\ placement_prev_csv' =
          IF placement_csv.exists THEN placement_csv ELSE placement_prev_csv
    /\ placement_csv' = [exists |-> TRUE, rows |-> placements]
    /\ history' = Append(history, placements)
    /\ pc' = "draw"
    /\ UNCHANGED <<config, booths, status, sol, placements, layout_svg, err>>
    /\ UNCHANGED compVars

DrawLayout ==
    /\ pc = "draw"
    /\ layout_svg' = [exists |-> TRUE, rows |-> placements]
    /\ pc' = "done"
    /\ UNCHANGED <<config, booths, status, sol, placements,
                   placement_csv, placement_prev_csv, err>>
    /\ UNCHANGED <<history, compVars>>

Next ==
    \/ BuildModel
    \/ BuildModelFails
    \/ Solve
    \/ ExtractPlacements
    \/ WritePlacement
    \/ DrawLayout

Spec == Init /\ [][Next]_vars

(***************************************************************************)
(* The script run again and again in the same directory.                   *)
(***************************************************************************)
\* a rail booth under a rail, the infeasible pair, a rail booth without a
\* rail, a booth of width 0
RunInputs ==
    {<<[DefaultConfig(3, 3) EXCEPT !.rails_cfg = <<Rail(0, 3, 3, 3)>>],
       <<Booth(2, 1, TRUE)>>>>,
     <<[DefaultConfig(3, 3) EXCEPT !.aisle = 1],
       <<Booth(2, 2, FALSE), Booth(2, 2, FALSE)>>>>,
     <<DefaultConfig(3, 3), <<Booth(2, 1, TRUE)>>>>,
     <<DefaultConfig(3, 3), <<Booth(0, 1, FALSE)>>>>}

InitRuns ==
    /\ pc = "start"
    /\ \E inp \in RunInputs : config = inp[1] /\ booths = inp[2]
    /\ status = "NONE"
    /\ sol = <<>>
    /\ placements = <<>>
    /\ \E d \in Directories :
          /\ placement_csv = d[1]
          /\ placement_prev_csv = d[2]
          /\ layout_svg = d[3]
    /\ err = "none"
    /\ history = IF placement_csv.exists THEN <<placement_csv.rows>> ELSE <<>>
    /\ cpc = "idle" /\ svg_root = <<>> /\ cfg = <<>>

\* the next invocation of the script: a fresh process, the same directory
Rerun ==
    /\ pc \in {"done", "failed"}
    /\ Len(history) < MaxGenerations
    /\ \E inp \in RunInputs : config' = inp[1] /\ booths' = inp[2]
    /\ pc' = "start"
    /\ status' = "NONE"
    /\ sol' = <<>>
    /\ placements' = <<>>
    /\ err' = "none"
    /\ UNCHANGED <<placement_csv, placement_prev_csv, layout_svg>>
    /\ UNCHANGED <<history, compVars>>

NextRuns ==
    \/ Next
    \/ Rerun

SpecRuns == InitRuns /\ [][NextRuns]_vars

(***************************************************************************)
(* svg2config.py: the drawing, its colours and its numbers.                *)
(*                                                                         *)
(* A drawing is the sequence of its elements in document order; parent is  *)
(* the index of the enclosing element, 0 for the svg root.  Drawing        *)
(* coordinates are decimal numbers held in thousandths; the numbers of the *)
(* configuration are integers.                                             *)
(***************************************************************************)
EPS_ALIGN == 500
SCALE_NUM == 2108407
SCALE_DEN == 597700

\* round(n / d) as Python rounds: to the nearest integer, a tie to the even one
PyRound(n, d) ==
    LET q == n \div d
        r == n % d
    IN  IF 2 * r < d THEN q
        ELSE IF 2 * r > d THEN q + 1
        ELSE IF q % 2 = 0 THEN q ELSE q + 1

\* int(round(v)) of a drawing number
RoundMm(v) == PyRound(v, 1000)

\* the colour spellings of the explored drawings and what the two
\* normalisations make of them
NAMED ==
    ("black" :> "#000000") @@ ("magenta" :> "#ff00ff") @@ ("orange" :> "#ffa500")
    @@ ("green" :> "#008000") @@ ("blue" :> "#0000ff")

Hex3 == ("#f0f" :> "#ff00ff") @@ ("#000" :> "#000000")

Hex6 == {"#0a7a0a", "#0080ff", "#ffa500", "#000000", "#ff00ff", "#123456"}

to_hex(color) ==
    IF color = None \/ color = "none" THEN None
    ELSE IF color \in DOMAIN NAMED THEN NAMED[color]
    ELSE IF color \in DOMAIN Hex3 THEN Hex3[color]
    ELSE IF color \in Hex6 THEN color
    ELSE None

norm_hex(c) ==
    IF c = None THEN None
    ELSE IF c \in DOMAIN Hex3 THEN Hex3[c]
    ELSE c

\* the built-in colour table of main()
default_color_map(tag, attr, colour) ==
    IF tag = "line" /\ attr = "stroke" /\ colour = "#0a7a0a" THEN "curtain-rail"
    ELSE IF tag = "line" /\ attr = "stroke" /\ colour = "#0080ff" THEN "inner-wall"
    ELSE IF tag = "rect" /\ attr = "fill" /\ colour = "#ffa500" THEN "no-go"
    ELSE IF tag = "rect" /\ attr = "stroke" /\ colour = "#000000" THEN "room"
    ELSE IF tag = "circle" /\ attr = "fill" /\ colour = "#ff00ff" THEN "outlet"
    ELSE None

\* the strokes that make a rail: the colours mapped to curtain-rail
target_hexes ==
    {h \in Hex6 : \E tag \in {"line", "path", "polyline"} :
                     default_color_map(tag, "stroke", h) = "curtain-rail"}

\* an element without any attribute
Elem(tag) ==
    [tag |-> tag, parent |-> 0, id |-> "", class |-> "",
     fill |-> None, stroke |-> None, style_fill |-> None, style_stroke |-> None,
     x |-> 0, y |-> 0, width |-> 0, height |-> 0, cx |-> 0, cy |-> 0,
     x1 |-> 0, y1 |-> 0, x2 |-> 0, y2 |-> 0, points |-> <<>>,
     band |-> <<>>, thickness |-> <<>>, attachable |-> None]

ElemsOf(root, tags) ==
    SelectSeq([i \in 1..Len(root) |-> i], LAMBDA i : root[i].tag \in tags)

\* the stroke of the element, else of its style, else the same of the parent
RECURSIVE effective_stroke(_, _)
effective_stroke(root, k) ==
    IF k = 0 THEN None
    ELSE IF root[k].stroke \notin {None, "", "none"}
         THEN norm_hex(root[k].stroke)
    ELSE IF root[k].style_stroke \notin {None, "", "none"}
         THEN norm_hex(root[k].style_stroke)
    ELSE effective_stroke(root, root[k].parent)

\* the colour the element itself carries: attribute first, then style
own_fill(el) ==
    IF to_hex(el.fill) # None THEN to_hex(el.fill) ELSE to_hex(el.style_fill)

own_stroke(el) ==
    IF to_hex(el.stroke) # None THEN to_hex(el.stroke) ELSE to_hex(el.style_stroke)

\* str.startswith over the identifiers of the explored drawings
StartsWith(id, p) ==
    <<id, p>> \in {<<"outlet1", "outlet">>, <<"inner1", "inner">>,
                   <<"wall1", "wall">>, <<"no-go-1", "no-go">>,
                   <<"no-go-zones", "no-go">>}

has_class_or_id_prefix(el, klass, id_prefixes) ==
    \/ el.class = klass
    \/ \E p \in id_prefixes : StartsWith(el.id, p)

RECURSIVE has_ancestor(_, _, _, _, _)
has_ancestor(root, k, classes, id_prefixes, ids) ==
    IF k = 0 THEN FALSE
    ELSE \/ root[k].class \in classes
         \/ root[k].id \in ids
         \/ \E p \in id_prefixes : StartsWith(root[k].id, p)
         \/ has_ancestor(root, root[k].parent, classes, id_prefixes, ids)

RECURSIVE get_data_band_mm(_, _)
get_data_band_mm(root, k) ==
    IF k = 0 THEN 1000000
    ELSE IF root[k].band # <<>> THEN root[k].band[1]
    ELSE get_data_band_mm(root, root[k].parent)

bool_attr(s, default) ==
    IF s = None THEN default ELSE s \in {"1", "true", "yes", "y", "on"}

(***************************************************************************)
(* Curtain rails: the segments of rail colour, snapped to an axis.         *)
(***************************************************************************)
\* the end points of a line, the first and the last point of a path or of a
\* polyline; nothing when there are fewer than two points
segment_xy(el) ==
    IF el.tag = "line" THEN <<el.x1, el.y1, el.x2, el.y2>>
    ELSE IF Len(el.points) >= 2
         THEN <<el.points[1][1], el.points[1][2],
                el.points[Len(el.points)][1], el.points[Len(el.points)][2]>>
    ELSE <<>>

\* the end points kept as drawn
snap_rail_asdrawn(xy, band) ==
    IF Abs(xy[1] - xy[3]) <= EPS_ALIGN \/ Abs(xy[2] - xy[4]) <= EPS_ALIGN
    THEN <<[p1 |-> <<xy[1], xy[2]>>, p2 |-> <<xy[3], xy[4]>>, band_mm |-> band]>>
    ELSE <<>>

\* the vertical test first, the horizontal one only when the first fails;
\* the coordinates are rounded to three decimals
snap_rail(xy, band) ==
    IF Abs(xy[1] - xy[3]) <= EPS_ALIGN
    THEN <<[p1 |-> <<PyRound(xy[1] + xy[3], 2), Min2(xy[2], xy[4])>>,
            p2 |-> <<PyRound(xy[1] + xy[3], 2), Max2(xy[2], xy[4])>>,
            band_mm |-> band]>>
    ELSE IF Abs(xy[2] - xy[4]) <= EPS_ALIGN
    THEN <<[p1 |-> <<Min2(xy[1], xy[3]), PyRound(xy[2] + xy[4], 2)>>,
            p2 |-> <<Max2(xy[1], xy[3]), PyRound(xy[2] + xy[4], 2)>>,
            band_mm |-> band]>>
    ELSE <<>>

\* the rail an element gives: none unless its effective stroke is a rail colour
rail_of(root, k) ==
    IF effective_stroke(root, k) \notin target_hexes THEN <<>>
    ELSE IF segment_xy(root[k]) = <<>> THEN <<>>
    ELSE snap_rail(segment_xy(root[k]), get_data_band_mm(root, k))

extract_curtain_rails(root) ==
    LET cand == ElemsOf(root, {"line"}) \o ElemsOf(root, {"path"})
                \o ElemsOf(root, {"polyline"})
        kept == SelectSeq(cand, LAMBDA k : rail_of(root, k) # <<>>)
    IN  [j \in 1..Len(kept) |-> rail_of(root, kept[j])[1]]

(***************************************************************************)
(* parse_svg: the hall, then outlets, rails, inner walls, forbidden zones. *)
(***************************************************************************)
\* the element with id room, else the first rect whose stroke maps to room;
\* 0 when there is neither
room_rect(root) ==
    LET byid == SelectSeq([i \in 1..Len(root) |-> i], LAMBDA i : root[i].id = "room")
        bycolour == SelectSeq(ElemsOf(root, {"rect"}),
                        LAMBDA i : default_color_map("rect", "stroke",
                                                     own_stroke(root[i])) = "room")
    IN  IF byid # <<>> THEN byid[1]
        ELSE IF bycolour # <<>> THEN bycolour[1]
        ELSE 0

\* the y axis of the drawing points down
flip_y_same(room_h, y) == y

flip_y(room_h, y) == room_h - y

is_outlet(el) ==
    \/ has_class_or_id_prefix(el, "outlet", {"outlet"})
    \/ /\ el.tag \in {"rect", "circle"}
       /\ \/ default_color_map(el.tag, "fill", own_fill(el)) = "outlet"
          \/ default_color_map(el.tag, "stroke", own_stroke(el)) = "outlet"

\* the centre of the circle or of the rect
outlet_of(el, room_h) ==
    IF el.tag = "circle"
    THEN <<RoundMm(el.cx), RoundMm(flip_y(room_h, el.cy))>>
    ELSE <<PyRound(2 * el.x + el.width, 2000),
           PyRound(flip_y(2 * room_h, 2 * el.y + el.height), 2000)>>

is_inner_wall(el) ==
    \/ has_class_or_id_prefix(el, "inner-wall", {"inner", "wall"})
    \/ default_color_map("line", "stroke", own_stroke(el)) = "inner-wall"

inner_wall_of(el, room_h) ==
    [name |-> el.id,
     p1 |-> <<RoundMm(el.x1), RoundMm(flip_y(room_h, el.y1))>>,
     p2 |-> <<RoundMm(el.x2), RoundMm(flip_y(room_h, el.y2))>>,
     thickness_mm |-> IF el.thickness = <<>> THEN 100 ELSE RoundMm(el.thickness[1]),
     attachable |-> bool_attr(el.attachable, TRUE)]

is_no_go(root, k) ==
    \/ has_class_or_id_prefix(root[k], "no-go", {"no-go", "nogozone", "no-go-zone"})
    \/ has_ancestor(root, k, {"no-go", "no-go-zone"}, {"no-go", "nogozone"},
                    {"no-go-zones"})
    \/ default_color_map("rect", "fill", own_fill(root[k])) = "no-go"
    \/ default_color_map("rect", "stroke", own_stroke(root[k])) = "no-go"

SeqMin(s) == CHOOSE v \in {s[i] : i \in DOMAIN s} : \A i \in DOMAIN s : v <= s[i]
SeqMax(s) == CHOOSE v \in {s[i] : i \in DOMAIN s} : \A i \in DOMAIN s : v >= s[i]

\* (xmin, ymin, xmax, ymax) in the drawing; nothing for a polygon without points
svg_bbox(el) ==
    IF el.tag = "rect"
    THEN <<el.x, el.y, el.x + el.width, el.y + el.height>>
    ELSE IF el.points = <<>> THEN <<>>
    ELSE <<SeqMin([i \in DOMAIN el.points |-> el.points[i][1]]),
           SeqMin([i \in DOMAIN el.points |-> el.points[i][2]]),
           SeqMax([i \in DOMAIN el.points |-> el.points[i][1]]),
           SeqMax([i \in DOMAIN el.points |-> el.points[i][2]])>>

no_go_of(el, room_h) ==
    LET bb == svg_bbox(el)
    IN  [name |-> el.id,
         rect |-> <<RoundMm(bb[1]), RoundMm(flip_y(room_h, bb[4])),
                    RoundMm(bb[3]), RoundMm(flip_y(room_h, bb[2]))>>]

default_requirements ==
    [curtain_rail_mode |-> "if_wanted", wall_contact_prefer |-> TRUE,
     wall_contact_default_hard |-> TRUE, wall_contact_hard |-> FALSE,
     inner_walls_count_as_wall_contact |-> TRUE,
     enforce_outer_wall_band |-> FALSE,
     front_clear_mm |-> 0, front_clear_mode |-> "hard",
     outlet_demand_hard_radius_mm |-> 0, outlet_reserve_radius_mm |-> 0,
     preferred_area_default |-> "soft"]

default_weights ==
    [compactness |-> 3000, wall_contact_bonus |-> 500, outlet_distance |-> 1,
     curtain_rail_match |-> 1, outlet_repel_non_wanter |-> 0,
     preferred_area_bonus |-> 1000]

parse_svg(root, wall_band_mm, aisle_mm) ==
    LET rr == room_rect(root)
        room_w == root[rr].width
        room_h == root[rr].height
        outs == SelectSeq(ElemsOf(root, {"circle"}) \o ElemsOf(root, {"rect"}),
                          LAMBDA k : is_outlet(root[k]))
        rails == extract_curtain_rails(root)
        iws == SelectSeq(ElemsOf(root, {"line"}), LAMBDA k : is_inner_wall(root[k]))
        ngs == SelectSeq(ElemsOf(root, {"rect"}) \o ElemsOf(root, {"polygon"}),
                         LAMBDA k : /\ k # rr
                                    /\ ~(root[rr].id # "" /\ root[k].id = root[rr].id)
                                    /\ is_no_go(root, k)
                                    /\ svg_bbox(root[k]) # <<>>)
    IN  [room |-> [width_mm |-> RoundMm(room_w), depth_mm |-> RoundMm(room_h),
                   wall_band_mm |-> wall_band_mm, min_aisle_mm |-> aisle_mm],
         infrastructure |->
            [outlets |-> [j \in 1..Len(outs) |-> outlet_of(root[outs[j]], room_h)],
             curtain_rails |->
                [j \in 1..Len(rails) |->
                    [p1 |-> <<RoundMm(rails[j].p1[1]),
                              RoundMm(flip_y(room_h, rails[j].p1[2]))>>,
                     p2 |-> <<RoundMm(rails[j].p2[1]),
                              RoundMm(flip_y(room_h, rails[j].p2[2]))>>,
                     band_mm |-> RoundMm(rails[j].band_mm)]],
             no_go_zones |-> [j \in 1..Len(ngs) |-> no_go_of(root[ngs[j]], room_h)],
             inner_walls |-> [j \in 1..Len(iws) |-> inner_wall_of(root[iws[j]], room_h)]],
         requirements |-> default_requirements,
         weights |-> default_weights]

(***************************************************************************)
(* The scaling of the dimensions and the run of svg2config.py.             *)
(***************************************************************************)
\* ten times, as the banner of the script says
scale_num_ten(v) == v * 10

\* int(round(v * SCALE_OUT))
scale_num(v) == PyRound(v * SCALE_NUM, SCALE_DEN)

scale_point(p) == <<scale_num(p[1]), scale_num(p[2])>>

\* _scale_dims on the room: every value is a number
scale_dims_room(obj) ==
    [width_mm |-> scale_num(obj.width_mm), depth_mm |-> scale_num(obj.depth_mm),
     wall_band_mm |-> scale_num(obj.wall_band_mm),
     min_aisle_mm |-> scale_num(obj.min_aisle_mm)]

\* _scale_dims on the infrastructure: numbers scaled, names and booleans kept
scale_dims_infrastructure(obj) ==
    [outlets |-> [j \in DOMAIN obj.outlets |-> scale_point(obj.outlets[j])],
     curtain_rails |->
        [j \in DOMAIN obj.curtain_rails |->
            [p1 |-> scale_point(obj.curtain_rails[j].p1),
             p2 |-> scale_point(obj.curtain_rails[j].p2),
             band_mm |-> scale_num(obj.curtain_rails[j].band_mm)]],
     no_go_zones |->
        [j \in DOMAIN obj.no_go_zones |->
            [name |-> obj.no_go_zones[j].name,
             rect |-> [i \in 1..4 |-> scale_num(obj.no_go_zones[j].rect[i])]]],
     inner_walls |->
        [j \in DOMAIN obj.inner_walls |->
            [name |-> obj.inner_walls[j].name,
             p1 |-> scale_point(obj.inner_walls[j].p1),
             p2 |-> scale_point(obj.inner_walls[j].p2),
             thickness_mm |-> scale_num(obj.inner_walls[j].thickness_mm),
             attachable |-> obj.inner_walls[j].attachable]]]

scale_requirements(req) ==
    [req EXCEPT
        !.front_clear_mm = scale_num(req.front_clear_mm),
        !.outlet_demand_hard_radius_mm = scale_num(req.outlet_demand_hard_radius_mm),
        !.outlet_reserve_radius_mm = scale_num(req.outlet_reserve_radius_mm)]

\* the drawings explored
RoomRect(x, y, w, h) ==
    [Elem("rect") EXCEPT !.id = "room", !.x = x, !.y = y, !.width = w, !.height = h]
Circle(cx, cy, fill, parent) ==
    [Elem("circle") EXCEPT !.cx = cx, !.cy = cy, !.fill = fill, !.parent = parent]
Line(x1, y1, x2, y2, stroke, parent) ==
    [Elem("line") EXCEPT !.x1 = x1, !.y1 = y1, !.x2 = x2, !.y2 = y2,
                         !.stroke = stroke, !.parent = parent]
Rect(x, y, w, h, fill, parent) ==
    [Elem("rect") EXCEPT !.x = x, !.y = y, !.width = w, !.height = h,
                         !.fill = fill, !.parent = parent]
Group(parent) == [Elem("g") EXCEPT !.parent = parent]

HallWidth == 8000
HallHeights == {6000, 6500}
HallOffsets == {<<0, 0>>, <<1000, 2000>>}
DrawnYs == {0, 1500, 2400}

\* a hall drawn at an offset with one shape of every class; the outlet is in
\* a corner of the hall or inside it
CoordinateDrawings(x0, y0, H) ==
    {<<RoomRect(x0, y0, HallWidth, H),
       Circle(c[1], c[2], "#ff00ff", 0),
       Line(1000, ya, 5000, ya, "#0a7a0a", 0),
       [Line(2000, yb, 2000, 4000, "#0080ff", 0) EXCEPT
            !.attachable = at, !.id = "inner1"],
       [Rect(1000, ya, 2000, 1500, "#ffa500", 0) EXCEPT !.id = "no-go-1"]>> :
        c \in {<<x0, y0 + H>>, <<x0 + HallWidth, y0>>, <<2500, 1500>>, <<1499, 2501>>},
        ya \in DrawnYs, yb \in DrawnYs, at \in {None, "false"}}

SegmentDeltas == {0, 300, 500, 501, 3000}
SegmentTags == {"line", "path", "polyline"}

\* a segment of rail colour from (2200, 2200) and a rail along y = 1000,
\* in both document orders
Segment(tag, dx, dy) ==
    IF tag = "line"
    THEN Line(2200, 2200, 2200 + dx, 2200 + dy, "#0a7a0a", 0)
    ELSE [Elem(tag) EXCEPT !.stroke = "#0a7a0a",
                           !.points = <<<<2200, 2200>>, <<2200 + dx, 2200 + dy>>>>]

RailDrawings ==
    {<<RoomRect(0, 0, HallWidth, 6000), Segment(tag, dx, dy),
       Line(5000, 1000, 1000, 1000, "#0a7a0a", 0)>> :
        tag \in SegmentTags, dx \in SegmentDeltas, dy \in SegmentDeltas}
    \cup
    {<<RoomRect(0, 0, HallWidth, 6000),
       Line(5000, 1000, 1000, 1000, "#0a7a0a", 0), Segment("line", dx, dy)>> :
        dx \in SegmentDeltas, dy \in SegmentDeltas}

\* where the colour of a shape is written
ColourPlaces ==
    {"own", "own_style", "parent", "parent_style", "grandparent",
     "parent_shadowed", "nowhere"}

\* the shape of a class, uncoloured
ClassShape(class) ==
    IF class = "outlet" THEN Circle(3000, 2000, None, 3)
    ELSE IF class = "curtain-rail" THEN Line(1000, 5000, 4000, 5000, None, 3)
    ELSE IF class = "inner-wall" THEN Line(6000, 1000, 6000, 3000, None, 3)
    ELSE Rect(4000, 1000, 2000, 1000, None, 3)

\* fill for outlets and forbidden zones, stroke for rails and inner walls
Coloured(el, class, colour, style) ==
    IF class \in {"outlet", "no-go"}
    THEN IF style THEN [el EXCEPT !.style_fill = colour]
                  ELSE [el EXCEPT !.fill = colour]
    ELSE IF style THEN [el EXCEPT !.style_stroke = colour]
                  ELSE [el EXCEPT !.stroke = colour]

\* the hall, a group in a group, the shape in the inner group
ColourDrawing(class, colour, place) ==
    <<RoomRect(0, 0, HallWidth, 6000),
      IF place = "grandparent"
      THEN Coloured(Group(0), class, colour, FALSE) ELSE Group(0),
      IF place \in {"parent", "parent_shadowed"}
      THEN Coloured(Group(2), class, colour, FALSE)
      ELSE IF place = "parent_style"
      THEN Coloured(Group(2), class, colour, TRUE) ELSE Group(2),
      IF place = "own" THEN Coloured(ClassShape(class), class, colour, FALSE)
      ELSE IF place = "own_style" THEN Coloured(ClassShape(class), class, colour, TRUE)
      ELSE IF place = "parent_shadowed"
      THEN Coloured(ClassShape(class), class, "#123456", FALSE)
      ELSE ClassShape(class)>>

ClassColours ==
    {<<"outlet", "#ff00ff">>, <<"outlet", "magenta">>, <<"outlet", "#f0f">>,
     <<"curtain-rail", "#0a7a0a">>, <<"inner-wall", "#0080ff">>,
     <<"no-go", "#ffa500">>, <<"no-go", "orange">>}

ColourDrawings ==
    {ColourDrawing(cc[1], cc[2], place) : cc \in ClassColours, place \in ColourPlaces}

\* shapes marked by class or id instead of colour, a hall found by its
\* stroke, and drawings without a hall
TokenDrawings ==
    {<<RoomRect(0, 0, HallWidth, 6000),
       [Group(0) EXCEPT !.id = "no-go-zones"],
       Rect(4000, 1000, 2000, 1000, None, 2),
       [Elem("polygon") EXCEPT !.class = "no-go",
            !.points = <<<<1000, 1000>>, <<3000, 1500>>, <<2000, 3000>>>>],
       [Circle(3000, 2000, None, 0) EXCEPT !.class = "outlet"],
       [Line(6000, 1000, 6000, 3000, None, 0) EXCEPT
            !.id = "wall1", !.thickness = <<250500>>],
       [Line(1000, 5000, 4000, 5000, "#0a7a0a", 0) EXCEPT !.band = <<900400>>]>>,
     <<[Rect(0, 0, HallWidth, 6000, None, 0) EXCEPT !.stroke = "black"],
       Circle(3000, 2000, "#ff00ff", 0)>>,
     <<Circle(3000, 2000, "#ff00ff", 0)>>,
     <<Rect(0, 0, HallWidth, 6000, "#ffa500", 0)>>}

Drawings ==
    UNION {CoordinateDrawings(o[1], o[2], H) : o \in HallOffsets, H \in HallHeights}
    \cup RailDrawings \cup ColourDrawings \cup TokenDrawings

optVars == <<pc, config, booths, status, sol, placements,
             placement_csv, placement_prev_csv, layout_svg, err, history>>

InitCompile ==
    /\ cpc = "start"
    /\ svg_root \in Drawings
    /\ cfg = <<>>
    /\ pc = "idle" /\ config = <<>> /\ booths = <<>> /\ status = "NONE"
    /\ sol = <<>> /\ placements = <<>> /\ err = "none" /\ history = <<>>
    /\ placement_csv = Absent /\ placement_prev_csv = Absent /\ layout_svg = Absent

\* parse_svg with the wall band and the aisle main() passes
ParseSvg ==
    /\ cpc = "start"
    /\ room_rect(svg_root) # 0
    /\ cfg' = parse_svg(svg_root, 0, 0)
    /\ cpc' = "parsed"
    /\ UNCHANGED <<svg_root, optVars>>

\* no hall in the drawing: ValueError
ParseSvgFails ==
    /\ cpc = "start"
    /\ room_rect(svg_root) = 0
    /\ cpc' = "failed"
    /\ UNCHANGED <<svg_root, cfg, optVars>>

\* the scaling in main() and the dump to config.json
ScaleOutput ==
    /\ cpc = "parsed"
    /\ cfg' = [cfg EXCEPT
                  !.room = scale_dims_room(cfg.room),
                  !.infrastructure = scale_dims_infrastructure(cfg.infrastructure),
                  !.requirements = scale_requirements(cfg.requirements)]
    /\ cpc' = "written"
    /\ UNCHANGED <<svg_root, optVars>>

NextCompile ==
    \/ ParseSvg
    \/ ParseSvgFails
    \/ ScaleOutput

SpecCompile == InitCompile /\ [][NextCompile]_vars

(***************************************************************************)
(* Properties of the emitted placement.                                    *)
(***************************************************************************)
\* placement.csv has been written by this run
Emitted == pc \in {"draw", "done"}
Rows == placement_csv.rows
RowRight(p) == p.x_mm + p.width_mm
RowTop(p) == p.y_mm + p.depth_mm

\* C1: every booth of an emitted placement lies inside the hall:
\* 0 <= x, 0 <= y, x + w_eff <= W and y + h_eff <= H.
C1_Containment ==
    Emitted =>
        \A i \in DOMAIN Rows :
            /\ 0 <= Rows[i].x_mm
            /\ 0 <= Rows[i].y_mm
            /\ RowRight(Rows[i]) <= config.room_w
            /\ RowTop(Rows[i]) <= config.room_h

\* a non-square booth emitted in the far corner of the hall
C1_Witness ==
    /\ Emitted
    /\ \E i \in DOMAIN Rows :
          /\ Rows[i].width_mm # Rows[i].depth_mm
          /\ RowRight(Rows[i]) = config.room_w
          /\ RowTop(Rows[i]) = config.room_h

\* C2: any two distinct booths of an emitted placement are separated by at
\* least the aisle A along x or along y.
C2_AisleSeparation ==
    Emitted =>
        \A i \in DOMAIN Rows : \A j \in DOMAIN Rows :
            i # j =>
                \/ RowRight(Rows[i]) + config.aisle <= Rows[j].x_mm
                \/ RowRight(Rows[j]) + config.aisle <= Rows[i].x_mm
                \/ RowTop(Rows[i]) + config.aisle <= Rows[j].y_mm
                \/ RowTop(Rows[j]) + config.aisle <= Rows[i].y_mm

\* two booths emitted exactly one aisle apart, level with each other
C2_Witness ==
    /\ Emitted
    /\ config.aisle >= 1
    /\ \E i \in DOMAIN Rows : \E j \in DOMAIN Rows :
          /\ i # j
          /\ RowRight(Rows[i]) + config.aisle = Rows[j].x_mm
          /\ Rows[i].y_mm = Rows[j].y_mm

\* C3: the emitted size of each booth agrees with its rotation bit:
\* (width, depth) = (w, h) when rotated = 0 and (h, w) when rotated = 1.
C3_EffectiveSize ==
    Emitted =>
        \A i \in DOMAIN Rows :
            /\ Rows[i].rotated \in {0, 1}
            /\ Rows[i].rotated = 0 =>
                  (Rows[i].width_mm = booths[i].w /\ Rows[i].depth_mm = booths[i].h)
            /\ Rows[i].rotated = 1 =>
                  (Rows[i].width_mm = booths[i].h /\ Rows[i].depth_mm = booths[i].w)

\* a non-square booth emitted rotated
C3_Witness ==
    /\ Emitted
    /\ \E i \in DOMAIN Rows : Rows[i].rotated = 1 /\ booths[i].w # booths[i].h

\* C4: every booth of an emitted placement is outside every forbidden zone.
C4_ForbiddenZones ==
    Emitted =>
        \A k \in DOMAIN config.no_go : \A i \in DOMAIN Rows :
            \/ RowRight(Rows[i]) <= config.no_go[k][1]
            \/ Rows[i].x_mm >= config.no_go[k][3]
            \/ RowTop(Rows[i]) <= config.no_go[k][2]
            \/ Rows[i].y_mm >= config.no_go[k][4]

\* a booth emitted directly on top of a zone, over the zone's x range
C4_Witness ==
    /\ Emitted
    /\ \E k \in DOMAIN config.no_go : \E i \in DOMAIN Rows :
          /\ Rows[i].y_mm = config.no_go[k][4]
          /\ Rows[i].x_mm < config.no_go[k][3]
          /\ RowRight(Rows[i]) > config.no_go[k][1]

\* the (x, y, rot) part of a set of solutions
GeometryOf(S) ==
    {[i \in DOMAIN s |-> <<s[i].x, s[i].y, s[i].rot>>] : s \in S}

AxisAlignedWalls(ws) ==
    SelectSeq(ws, LAMBDA w : w.p1[1] = w.p2[1] \/ w.p1[2] = w.p2[2])

\* C5: no booth of an emitted placement straddles an axis-aligned inner wall
\* (vertical wall at x0 over [ymin, ymax]: right <= x0 or x >= x0 or y >= ymax
\* or top <= ymin; horizontal symmetric), and diagonal inner walls change
\* nothing: the placements the solver can return are those of the same
\* configuration without its diagonal walls.
C5_InnerWalls ==
    /\ Emitted =>
          \A k \in DOMAIN config.inner_walls : \A i \in DOMAIN Rows :
              LET w == config.inner_walls[k]
                  p == Rows[i]
              IN  /\ w.p1[1] = w.p2[1] =>
                        \/ RowRight(p) <= w.p1[1]
                        \/ p.x_mm >= w.p1[1]
                        \/ p.y_mm >= Max2(w.p1[2], w.p2[2])
                        \/ RowTop(p) <= Min2(w.p1[2], w.p2[2])
                  /\ (w.p1[1] # w.p2[1] /\ w.p1[2] = w.p2[2]) =>
                        \/ RowTop(p) <= w.p1[2]
                        \/ p.y_mm >= w.p1[2]
                        \/ p.x_mm >= Max2(w.p1[1], w.p2[1])
                        \/ RowRight(p) <= Min2(w.p1[1], w.p2[1])
    /\ (pc = "built" /\ AxisAlignedWalls(config.inner_walls) # config.inner_walls) =>
          GeometryOf(Solutions(config, booths)) =
              GeometryOf(Solutions(
                  [config EXCEPT !.inner_walls = AxisAlignedWalls(config.inner_walls)],
                  booths))

\* a booth emitted across the line of a vertical inner wall, beyond its span
C5_Witness ==
    /\ Emitted
    /\ \E k \in DOMAIN config.inner_walls : \E i \in DOMAIN Rows :
          LET w == config.inner_walls[k]
          IN  /\ w.p1[1] = w.p2[1]
              /\ Rows[i].x_mm < w.p1[1]
              /\ RowRight(Rows[i]) > w.p1[1]
              /\ Rows[i].y_mm >= Max2(w.p1[2], w.p2[2])

\* the solver returned a solution
Solved == status \in {"OPTIMAL", "FEASIBLE"}

RailRequired(i) ==
    \/ config.rail_mode = "all"
    \/ config.rail_mode = "if_wanted" /\ booths[i].want_curtain

\* C6: in every solution a rail-required booth has exactly one attachment
\* indicator true over all faces of all rails, and any other booth has none.
C6_AttachExactlyOne ==
    Solved =>
        \A i \in DOMAIN sol :
            /\ sol[i].att \subseteq attach_vars(config)
            /\ RailRequired(i) => Cardinality(sol[i].att) = 1
            /\ ~RailRequired(i) => sol[i].att = {}

\* a solution with an attached booth next to a booth that may not attach
C6_Witness ==
    /\ Solved
    /\ attach_vars(config) # {}
    /\ \E i \in DOMAIN sol : \E j \in DOMAIN sol :
          /\ RailRequired(i) /\ Cardinality(sol[i].att) = 1
          /\ ~RailRequired(j) /\ sol[j].att = {}

\* C7: a booth attached to a horizontal rail is emitted unrotated, within the
\* rail's x span and with its bottom or top edge on the rail; one attached to a
\* vertical rail is emitted rotated, within the y span and with its left or
\* right edge on the rail.  With the single rail along the top wall a
\* rail-required booth w x h is emitted with top = H, r = 0, x in [0, W - w].
C7_RailGeometry ==
    Emitted =>
        \A i \in DOMAIN Rows :
            /\ \A l \in sol[i].att :
                  LET p1 == config.rails_cfg[l.r].p1
                      p2 == config.rails_cfg[l.r].p2
                      p == Rows[i]
                  IN  /\ p1[2] = p2[2] =>
                            /\ p.rotated = 0
                            /\ Min2(p1[1], p2[1]) <= p.x_mm
                            /\ RowRight(p) <= Max2(p1[1], p2[1])
                            /\ p.y_mm = p1[2] \/ RowTop(p) = p1[2]
                      /\ (p1[2] # p2[2] /\ p1[1] = p2[1]) =>
                            /\ p.rotated = 1
                            /\ Min2(p1[2], p2[2]) <= p.y_mm
                            /\ RowTop(p) <= Max2(p1[2], p2[2])
                            /\ p.x_mm = p1[1] \/ RowRight(p) = p1[1]
            /\ (/\ config.rails_cfg = <<Rail(0, config.room_h, config.room_w, config.room_h)>>
                /\ RailRequired(i)) =>
                  /\ RowTop(Rows[i]) = config.room_h
                  /\ Rows[i].rotated = 0
                  /\ Rows[i].x_mm \in 0..(config.room_w - booths[i].w)

\* a non-square rail-required booth emitted under the rail along the top wall,
\* in the corner where both wall bands are active
C7_Witness ==
    /\ Emitted
    /\ config.rails_cfg = <<Rail(0, config.room_h, config.room_w, config.room_h)>>
    /\ \E i \in DOMAIN Rows :
          /\ RailRequired(i)
          /\ booths[i].w # booths[i].h
          /\ Rows[i].x_mm = 0
          /\ sol[i].att = {[kind |-> "h_top", r |-> 1]}

\* C8: under wall_contact_hard or wall_contact_default_hard every booth that
\* is not rail-required is emitted with an edge on an outer wall or, only when
\* inner walls count as wall contact, with an edge on the line of an
\* axis-aligned inner wall and its centre within the wall's span.
C8_HardWallContact ==
    (Emitted /\ (config.hard_wall \/ config.wall_default_hard)) =>
        \A i \in DOMAIN Rows :
            ~RailRequired(i) =>
                LET p == Rows[i]
                IN  \/ p.x_mm = 0
                    \/ RowRight(p) = config.room_w
                    \/ p.y_mm = 0
                    \/ RowTop(p) = config.room_h
                    \/ /\ config.inner_as_wall
                       /\ \E k \in DOMAIN config.inner_walls :
                             LET w == config.inner_walls[k]
                             IN  \/ /\ w.p1[1] = w.p2[1]
                                    /\ p.x_mm = w.p1[1] \/ RowRight(p) = w.p1[1]
                                    /\ 2 * Min2(w.p1[2], w.p2[2]) <= 2 * p.y_mm + p.depth_mm
                                    /\ 2 * p.y_mm + p.depth_mm <= 2 * Max2(w.p1[2], w.p2[2])
                                 \/ /\ w.p1[2] = w.p2[2]
                                    /\ p.y_mm = w.p1[2] \/ RowTop(p) = w.p1[2]
                                    /\ 2 * Min2(w.p1[1], w.p2[1]) <= 2 * p.x_mm + p.width_mm
                                    /\ 2 * p.x_mm + p.width_mm <= 2 * Max2(w.p1[1], w.p2[1])

\* a booth emitted under the hard requirement that touches no outer wall and
\* satisfies it on an inner wall
C8_Witness ==
    /\ Emitted
    /\ config.hard_wall
    /\ \E i \in DOMAIN Rows :
          /\ ~RailRequired(i)
          /\ Rows[i].x_mm # 0
          /\ RowRight(Rows[i]) # config.room_w
          /\ Rows[i].y_mm # 0
          /\ RowTop(Rows[i]) # config.room_h

\* C9: with front_clear_mode = hard and F > 0 no other booth of an emitted
\* placement intersects the rectangle of depth F in front of a booth's chosen
\* front edge.
C9_FrontCorridorClear ==
    (Emitted /\ config.front_mode = "hard" /\ config.front_clear > 0) =>
        \A i \in DOMAIN Rows : \A j \in DOMAIN Rows :
            i # j =>
                LET p == Rows[i]
                    q == Rows[j]
                    F == config.front_clear
                IN  /\ sol[i].fr \in {"right", "left", "up", "down"}
                    /\ sol[i].fr = "right" =>
                          \/ RowRight(q) <= RowRight(p) \/ q.x_mm >= RowRight(p) + F
                          \/ RowTop(q) <= p.y_mm \/ q.y_mm >= RowTop(p)
                    /\ sol[i].fr = "left" =>
                          \/ RowRight(q) <= p.x_mm - F \/ q.x_mm >= p.x_mm
                          \/ RowTop(q) <= p.y_mm \/ q.y_mm >= RowTop(p)
                    /\ sol[i].fr = "up" =>
                          \/ RowTop(q) <= RowTop(p) \/ q.y_mm >= RowTop(p) + F
                          \/ RowRight(q) <= p.x_mm \/ q.x_mm >= RowRight(p)
                    /\ sol[i].fr = "down" =>
                          \/ RowTop(q) <= p.y_mm - F \/ q.y_mm >= p.y_mm
                          \/ RowRight(q) <= p.x_mm \/ q.x_mm >= RowRight(p)

\* a booth emitted straight in front of another, exactly F beyond its front edge
C9_Witness ==
    /\ Emitted
    /\ config.front_mode = "hard"
    /\ config.front_clear > 0
    /\ \E i \in DOMAIN Rows : \E j \in DOMAIN Rows :
          /\ i # j
          /\ sol[i].fr = "up"
          /\ Rows[j].y_mm = RowTop(Rows[i]) + config.front_clear
          /\ Rows[j].x_mm < RowRight(Rows[i])
          /\ RowRight(Rows[j]) > Rows[i].x_mm

\* the hall 3 x 3 with two booths 2 x 2 and aisle 1
InfeasibleExample ==
    /\ config.room_w = 3 /\ config.room_h = 3 /\ config.aisle = 1
    /\ Len(booths) = 2
    /\ \A i \in DOMAIN booths : booths[i].w = 2 /\ booths[i].h = 2

\* C10: the placement table and the diagram are written only under status
\* OPTIMAL or FEASIBLE; under any other status the run ends with an error and
\* placement.csv, placement.prev.csv and layout.svg stay as they were; the
\* hall 3 x 3 with two booths 2 x 2 and aisle 1 never gets a placement.
C10_OutputOnlyOnSuccess ==
    /\ [](/\ (status \notin {"NONE", "OPTIMAL", "FEASIBLE"}) =>
                (pc = "failed" /\ err = "RuntimeError")
          /\ pc \in {"write", "draw", "done"} => status \in {"OPTIMAL", "FEASIBLE"}
          /\ InfeasibleExample => (status \notin {"OPTIMAL", "FEASIBLE"} /\ ~Emitted))
    /\ [][(status' \notin {"OPTIMAL", "FEASIBLE"}) =>
              /\ placement_csv' = placement_csv
              /\ placement_prev_csv' = placement_prev_csv
              /\ layout_svg' = layout_svg]_vars

\* the infeasible example run in a directory that already holds outputs
C10_Witness ==
    /\ InfeasibleExample
    /\ status = "INFEASIBLE"
    /\ pc = "failed"
    /\ placement_csv = Stale(1)
    /\ placement_prev_csv = Stale(2)
    /\ layout_svg = Stale(3)

(***************************************************************************)
(* The range checks after the solve.                                       *)
(***************************************************************************)
\* the solver returned values and those of booth i break one of the ranges
OutOfRange(i) ==
    ~(/\ 0 <= sol[i].x /\ sol[i].x <= config.room_w
      /\ 0 <= sol[i].y /\ sol[i].y <= config.room_h
      /\ 1 <= sol[i].w_eff /\ sol[i].w_eff <= config.room_w
      /\ 1 <= sol[i].h_eff /\ sol[i].h_eff <= config.room_h
      /\ sol[i].x + sol[i].w_eff <= config.room_w
      /\ sol[i].y + sol[i].h_eff <= config.room_h)

\* placement.csv, placement.prev.csv and layout.svg are as the run found them
FilesUntouched ==
    <<placement_csv, placement_prev_csv, layout_svg>> \in Directories

\* C11: the range checks of all booths come before any output: when the
\* solved values of some booth break 0 <= x <= W, 0 <= y <= H, 1 <= w_eff <= W,
\* 1 <= h_eff <= H, x + w_eff <= W or y + h_eff <= H, the run never gets to
\* the writing steps, it ends with the assertion error, and placement.csv,
\* placement.prev.csv and layout.svg are neither created nor modified.
C11_RangeChecksBeforeOutput ==
    (\E i \in DOMAIN sol : OutOfRange(i)) =>
        /\ pc \in {"extract", "failed"}
        /\ pc = "failed" => err = "AssertionError"
        /\ placements = <<>>
        /\ FilesUntouched

\* the first booth is in range, the second has width 0: the run has aborted
\* in a directory that held outputs and none of them was replaced
C11_Witness ==
    /\ pc = "failed" /\ err = "AssertionError"
    /\ Len(sol) = 2
    /\ ~OutOfRange(1)
    /\ OutOfRange(2)
    /\ placement_csv = Stale(1)
    /\ placement_prev_csv = Stale(2)
    /\ layout_svg = Stale(3)

(***************************************************************************)
(* The snapshot of the previous placement table.                           *)
(***************************************************************************)
Generations == Len(history)

\* C12: exactly one previous generation is kept.  With history the successive
\* contents of placement.csv: the table holds the latest of them, which during
\* the rest of a successful run is the new result; once a run has replaced a
\* table P, placement.prev.csv holds exactly P, the table of the immediately
\* preceding successful run; the first run of an empty directory leaves no
\* snapshot.
C12_OnePreviousGeneration ==
    /\ Generations = 0 => ~placement_csv.exists
    /\ Generations >= 1 =>
          placement_csv = [exists |-> TRUE, rows |-> history[Generations]]
    /\ pc \in {"draw", "done"} => placement_csv.rows = placements
    /\ Generations >= 2 =>
          placement_prev_csv = [exists |-> TRUE, rows |-> history[Generations - 1]]
    /\ (Generations = 1 /\ history[1] # Stale(1).rows) =>
          placement_prev_csv = Absent

\* three successful runs from an empty directory, each with another result
C12_Witness ==
    /\ pc = "done"
    /\ Generations = 3
    /\ history[1] # Stale(1).rows
    /\ history[1] # history[2]
    /\ history[2] # history[3]
    /\ placement_prev_csv.rows = history[2]
    /\ placement_csv.rows = history[3]

(***************************************************************************)
(* Rail-required booths and no rail.                                       *)
(***************************************************************************)
\* C13: when some booth is rail-required and the configuration defines no
\* rail, model construction raises an error before the solver is invoked (the
\* run is at its start or has ended with that error, no status exists) and
\* neither the placement nor the diagram is written; when no booth is
\* rail-required, an empty rail list raises no such error.
C13_NoRailFailsFast ==
    /\ (config.rails_cfg = <<>> /\ \E i \in DOMAIN booths : RailRequired(i)) =>
          /\ pc \in {"start", "failed"}
          /\ pc = "failed" => err = "ValueError"
          /\ status = "NONE"
          /\ FilesUntouched
    /\ (config.rails_cfg = <<>> /\ \A i \in DOMAIN booths : ~RailRequired(i)) =>
          err # "ValueError"

\* a booth that wants a rail, no rail: the run has stopped before the solve
C13_Witness ==
    /\ config.rails_cfg = <<>>
    /\ config.rail_mode = "if_wanted"
    /\ \E i \in DOMAIN booths : booths[i].want_curtain
    /\ pc = "failed" /\ err = "ValueError"
    /\ status = "NONE"
    /\ placement_csv = Stale(1) /\ layout_svg = Stale(3)

(***************************************************************************)
(* Properties of the compiled scene.                                       *)
(***************************************************************************)
Parsed == cpc = "parsed"
Scene == cfg.infrastructure
\* the hall rectangle of the drawing
Hall == svg_root[room_rect(svg_root)]
\* the shapes behind the emitted entries, in the order of emission
OutletShapes ==
    SelectSeq(ElemsOf(svg_root, {"circle"}) \o ElemsOf(svg_root, {"rect"}),
              LAMBDA k : is_outlet(svg_root[k]))
WallShapes ==
    SelectSeq(ElemsOf(svg_root, {"line"}), LAMBDA k : is_inner_wall(svg_root[k]))
ZoneShapes ==
    SelectSeq(ElemsOf(svg_root, {"rect"}) \o ElemsOf(svg_root, {"polygon"}),
              LAMBDA k : /\ svg_root[k].id # "room"
                         /\ is_no_go(svg_root, k)
                         /\ svg_bbox(svg_root[k]) # <<>>)
\* twice the centre of an outlet shape, in the drawing
Centre2(el) ==
    IF el.tag = "circle" THEN <<2 * el.cx, 2 * el.cy>>
    ELSE <<2 * el.x + el.width, 2 * el.y + el.height>>

\* C14: with H the height of the hall rectangle, every y the compiler emits
\* before scaling (outlets, rail end points, inner-wall end points, bounds of
\* forbidden zones) is round(H - y) of the drawn y, every x is the rounded
\* drawn x, and a forbidden zone has ymin <= ymax, its ymin coming from the
\* drawn ymax.  For a rail the drawn coordinates are those of the snapped
\* segment.
C14_YReflected ==
    Parsed =>
        /\ Len(Scene.outlets) = Len(OutletShapes)
        /\ \A j \in DOMAIN Scene.outlets :
              LET c2 == Centre2(svg_root[OutletShapes[j]])
              IN  /\ Scene.outlets[j][1] = PyRound(c2[1], 2000)
                  /\ Scene.outlets[j][2] = PyRound(2 * Hall.height - c2[2], 2000)
        /\ Len(Scene.curtain_rails) = Len(extract_curtain_rails(svg_root))
        /\ \A j \in DOMAIN Scene.curtain_rails :
              LET r == extract_curtain_rails(svg_root)[j]
              IN  /\ Scene.curtain_rails[j].p1 =
                        <<PyRound(r.p1[1], 1000), PyRound(Hall.height - r.p1[2], 1000)>>
                  /\ Scene.curtain_rails[j].p2 =
                        <<PyRound(r.p2[1], 1000), PyRound(Hall.height - r.p2[2], 1000)>>
        /\ Len(Scene.inner_walls) = Len(WallShapes)
        /\ \A j \in DOMAIN Scene.inner_walls :
              LET el == svg_root[WallShapes[j]]
              IN  /\ Scene.inner_walls[j].p1 =
                        <<PyRound(el.x1, 1000), PyRound(Hall.height - el.y1, 1000)>>
                  /\ Scene.inner_walls[j].p2 =
                        <<PyRound(el.x2, 1000), PyRound(Hall.height - el.y2, 1000)>>
        /\ Len(Scene.no_go_zones) = Len(ZoneShapes)
        /\ \A j \in DOMAIN Scene.no_go_zones :
              LET bb == svg_bbox(svg_root[ZoneShapes[j]])
                  z == Scene.no_go_zones[j].rect
              IN  /\ z[1] = PyRound(bb[1], 1000)
                  /\ z[3] = PyRound(bb[3], 1000)
                  /\ z[2] = PyRound(Hall.height - bb[4], 1000)
                  /\ z[4] = PyRound(Hall.height - bb[2], 1000)
                  /\ z[2] <= z[4]

\* a hall of height 6.5 with a shape of every class; the zone drawn from
\* y = 2.4 to y = 3.9 is emitted from 3 to 4
C14_Witness ==
    /\ Parsed
    /\ Hall.height = 6500
    /\ Scene.outlets # <<>> /\ Scene.curtain_rails # <<>>
    /\ Scene.inner_walls # <<>>
    /\ \E j \in DOMAIN Scene.no_go_zones :
          /\ svg_bbox(svg_root[ZoneShapes[j]])[2] = 2400
          /\ svg_bbox(svg_root[ZoneShapes[j]])[4] = 3900
          /\ Scene.no_go_zones[j].rect[2] = 3
          /\ Scene.no_go_zones[j].rect[4] = 4

\* C15: the origin of the compiled scene is the lower-left corner of the hall:
\* wherever the hall rectangle is drawn, an outlet drawn on its lower-left
\* corner is emitted at (0, 0) and one on its upper-right corner at
\* (width, depth), before scaling.
C15_OriginAtHallCorner ==
    Parsed =>
        \A j \in DOMAIN Scene.outlets :
            LET el == svg_root[OutletShapes[j]]
            IN  el.tag = "circle" =>
                  /\ (el.cx = Hall.x /\ el.cy = Hall.y + Hall.height) =>
                        Scene.outlets[j] = <<0, 0>>
                  /\ (el.cx = Hall.x + Hall.width /\ el.cy = Hall.y) =>
                        Scene.outlets[j] = <<cfg.room.width_mm, cfg.room.depth_mm>>

\* a number times 2108407/597700, rounded to the nearest integer
Times(n) == PyRound(n * SCALE_NUM, SCALE_DEN)
TimesPoint(p) == <<Times(p[1]), Times(p[2])>>

RailColoured ==
    SelectSeq(ElemsOf(svg_root, {"line"}) \o ElemsOf(svg_root, {"path"})
              \o ElemsOf(svg_root, {"polyline"}),
              LAMBDA k : /\ effective_stroke(svg_root, k) \in target_hexes
                         /\ segment_xy(svg_root[k]) # <<>>)
SegDx(k) == Abs(segment_xy(svg_root[k])[1] - segment_xy(svg_root[k])[3])
SegDy(k) == Abs(segment_xy(svg_root[k])[2] - segment_xy(svg_root[k])[4])
NearAxis == SelectSeq(RailColoured, LAMBDA k : SegDx(k) <= 500 \/ SegDy(k) <= 500)
\* the emitted coordinate of a mean: rounded to three decimals, reflected if
\* it is a y, rounded to an integer
MeanX(k) ==
    PyRound(PyRound(segment_xy(svg_root[k])[1] + segment_xy(svg_root[k])[3], 2), 1000)
MeanY(k) ==
    PyRound(Hall.height
            - PyRound(segment_xy(svg_root[k])[2] + segment_xy(svg_root[k])[4], 2), 1000)
AxisAlignedRails ==
    \A j \in DOMAIN Scene.curtain_rails :
        \/ Scene.curtain_rails[j].p1[1] = Scene.curtain_rails[j].p2[1]
        \/ Scene.curtain_rails[j].p1[2] = Scene.curtain_rails[j].p2[2]

\* C17 as stated: every emitted rail is axis-aligned in its integer
\* coordinates, before and after scaling; a segment of rail colour with
\* |dx| <= 0.5 becomes vertical at x = mean(x1, x2), one with |dy| <= 0.5
\* becomes horizontal at y = mean(y1, y2), any other is dropped and the
\* other rails are emitted all the same.
C17_RailsSnapped_AsStated ==
    /\ cpc \in {"parsed", "written"} => AxisAlignedRails
    /\ Parsed =>
          /\ Len(Scene.curtain_rails) = Len(NearAxis)
          /\ \A j \in DOMAIN Scene.curtain_rails :
                /\ SegDx(NearAxis[j]) <= 500 =>
                      /\ Scene.curtain_rails[j].p1[1] = MeanX(NearAxis[j])
                      /\ Scene.curtain_rails[j].p2[1] = MeanX(NearAxis[j])
                /\ SegDy(NearAxis[j]) <= 500 =>
                      /\ Scene.curtain_rails[j].p1[2] = MeanY(NearAxis[j])
                      /\ Scene.curtain_rails[j].p2[2] = MeanY(NearAxis[j])

\* C17, amended: every emitted rail is axis-aligned in its integer
\* coordinates, before and after scaling; a segment of rail colour with
\* |dx| <= 0.5 becomes vertical at x = mean(x1, x2), one with |dx| > 0.5 and
\* |dy| <= 0.5 becomes horizontal at y = mean(y1, y2), any other is dropped
\* and the other rails are emitted all the same.
C17_RailsSnapped ==
    /\ cpc \in {"parsed", "written"} => AxisAlignedRails
    /\ Parsed =>
          /\ Len(Scene.curtain_rails) = Len(NearAxis)
          /\ \A j \in DOMAIN Scene.curtain_rails :
                /\ SegDx(NearAxis[j]) <= 500 =>
                      /\ Scene.curtain_rails[j].p1[1] = MeanX(NearAxis[j])
                      /\ Scene.curtain_rails[j].p2[1] = MeanX(NearAxis[j])
                /\ (SegDx(NearAxis[j]) > 500 /\ SegDy(NearAxis[j]) <= 500) =>
                      /\ Scene.curtain_rails[j].p1[2] = MeanY(NearAxis[j])
                      /\ Scene.curtain_rails[j].p2[2] = MeanY(NearAxis[j])

\* a segment with dx = 0.3 and dy = 0.5 next to a proper rail: it is emitted
\* as a vertical rail from y = 4 to y = 3, and the other rail is emitted too
C17_Witness ==
    /\ Parsed
    /\ Len(Scene.curtain_rails) = 2
    /\ \E j \in DOMAIN Scene.curtain_rails :
          /\ SegDx(NearAxis[j]) = 300 /\ SegDy(NearAxis[j]) = 500
          /\ Scene.curtain_rails[j].p1 = <<2, 4>>
          /\ Scene.curtain_rails[j].p2 = <<2, 3>>

\* the effective colour of a shape: at each level from the shape up to the
\* root the explicit attribute first, then the inline style
RECURSIVE ResolvedColour(_, _)
ResolvedColour(k, attr) ==
    IF k = 0 THEN None
    ELSE LET own == IF attr = "fill" THEN svg_root[k].fill ELSE svg_root[k].stroke
             sty == IF attr = "fill" THEN svg_root[k].style_fill
                    ELSE svg_root[k].style_stroke
         IN  IF to_hex(own) # None THEN to_hex(own)
             ELSE IF to_hex(sty) # None THEN to_hex(sty)
             ELSE ResolvedColour(svg_root[k].parent, attr)

NoOwnColour(k) ==
    /\ svg_root[k].fill = None /\ svg_root[k].stroke = None
    /\ svg_root[k].style_fill = None /\ svg_root[k].style_stroke = None

\* the class the colour table gives a shape for its inherited colour
InheritedClass(k) ==
    IF svg_root[k].tag = "circle"
    THEN default_color_map("circle", "fill", ResolvedColour(k, "fill"))
    ELSE IF svg_root[k].tag = "line"
    THEN default_color_map("line", "stroke", ResolvedColour(k, "stroke"))
    ELSE IF svg_root[k].tag = "rect"
    THEN default_color_map("rect", "fill", ResolvedColour(k, "fill"))
    ELSE None

\* C18: for every infrastructure class the colour that assigns the class is
\* the effective colour of the shape, resolved through its ancestor groups:
\* a shape without fill and stroke of its own, inside a group whose colour
\* maps to outlet, curtain-rail, inner-wall or no-go, is emitted as an
\* outlet, a curtain rail, an inner wall or a forbidden zone.
C18_ColourFromAncestors ==
    Parsed =>
        \A k \in DOMAIN svg_root :
            NoOwnColour(k) =>
                /\ InheritedClass(k) = "outlet" =>
                      \E j \in DOMAIN Scene.outlets :
                          Scene.outlets[j] = outlet_of(svg_root[k], Hall.height)
                /\ InheritedClass(k) = "curtain-rail" =>
                      \E j \in DOMAIN Scene.curtain_rails :
                          /\ Scene.curtain_rails[j].p1[1] = RoundMm(svg_root[k].x1)
                          /\ Scene.curtain_rails[j].p2[1] = RoundMm(svg_root[k].x2)
                /\ InheritedClass(k) = "inner-wall" =>
                      \E j \in DOMAIN Scene.inner_walls :
                          Scene.inner_walls[j] = inner_wall_of(svg_root[k], Hall.height)
                /\ InheritedClass(k) = "no-go" =>
                      \E j \in DOMAIN Scene.no_go_zones :
                          Scene.no_go_zones[j] = no_go_of(svg_root[k], Hall.height)

(***************************************************************************)
(* The attachable flag of an inner wall.                                   *)
(***************************************************************************)
\* C19: an inner wall counts as wall contact only if its attachable flag is
\* true: in a solution no inner-wall touch indicator of a wall with
\* attachable = false is active (so that wall feeds neither the bonus nor the
\* rotation rule), and under hard wall contact a booth that is not
\* rail-required touches an outer wall or lies against an attachable wall.
C19_OnlyAttachableWallsCount ==
    Solved =>
        \A i \in DOMAIN sol :
            /\ \A l \in sol[i].iw_touch : config.inner_walls[l.w_idx].attachable
            /\ (~RailRequired(i) /\ (config.hard_wall \/ config.wall_default_hard)) =>
                  \/ sol[i].touch # {}
                  \/ \E l \in IwLiterals(config) :
                        /\ config.inner_walls[l.w_idx].attachable
                        /\ IwTouchImplies(config, sol[i], l)

(***************************************************************************)
(* Left-right reflection.                                                  *)
(***************************************************************************)
MirrorPoint(c, p) == <<c.room_w - p[1], p[2]>>
MirrorRect(c, r) == <<c.room_w - r[3], r[2], c.room_w - r[1], r[4]>>

\* outlets, rails, inner walls and forbidden zones reflected by x -> W - x
MirrorConfig(c) ==
    [c EXCEPT
        !.outlets = [k \in DOMAIN c.outlets |-> MirrorPoint(c, c.outlets[k])],
        !.rails_cfg = [k \in DOMAIN c.rails_cfg |->
                          [c.rails_cfg[k] EXCEPT !.p1 = MirrorPoint(c, @),
                                                 !.p2 = MirrorPoint(c, @)]],
        !.inner_walls = [k \in DOMAIN c.inner_walls |->
                            [c.inner_walls[k] EXCEPT !.p1 = MirrorPoint(c, @),
                                                     !.p2 = MirrorPoint(c, @)]],
        !.no_go = [k \in DOMAIN c.no_go |-> MirrorRect(c, c.no_go[k])]]

\* the preferred rectangles reflected
MirrorBooths(c, bs) ==
    [i \in DOMAIN bs |->
        IF bs[i].pref = <<>> THEN bs[i]
        ELSE [bs[i] EXCEPT !.pref = MirrorRect(c, @)]]

\* a placement: position, rotation and effective size of every booth
PlacementOf(s) ==
    [i \in DOMAIN s |->
        [x |-> s[i].x, y |-> s[i].y, rot |-> s[i].rot,
         w_eff |-> s[i].w_eff, h_eff |-> s[i].h_eff]]

\* x_i -> W - x_i - w_eff_i, the same y_i and r_i
MirrorPlacement(c, s) ==
    [i \in DOMAIN s |->
        [x |-> c.room_w - s[i].x - s[i].w_eff, y |-> s[i].y, rot |-> s[i].rot,
         w_eff |-> s[i].w_eff, h_eff |-> s[i].h_eff]]

\* every placement that satisfies the hard constraints of c, reflected and
\* with its objective value, is a placement that satisfies the hard
\* constraints of the reflected input, with that objective value
MirrorSymmetric(c, bs) ==
    {<<MirrorPlacement(c, s), Objective(c, bs, s)>> : s \in Solutions(c, bs)}
    \subseteq
    {<<PlacementOf(t), Objective(MirrorConfig(c), MirrorBooths(c, bs), t)>> :
        t \in Solutions(MirrorConfig(c), MirrorBooths(c, bs))}

\* C20 as stated: the model is symmetric under left-right reflection, for
\* every configuration, front_clear_mode = hard with F > 0 included: the
\* mirrored placement satisfies all hard constraints of the mirrored
\* configuration and has the same objective value.
C20_MirrorSymmetry_AsStated ==
    pc = "built" => MirrorSymmetric(config, booths)

\* C20, amended: the model is symmetric under left-right reflection for every
\* configuration whose front corridor is not enforced (front_clear_mode is
\* not hard or F = 0): the mirrored placement satisfies all hard constraints
\* of the mirrored configuration and has the same objective value.
C20_MirrorSymmetry ==
    (pc = "built" /\ ~FrontActive(config)) => MirrorSymmetric(config, booths)

\* a hall of width 4 with an outlet at x = 1 and a booth that wants it: the
\* booth can stand in the left corner, and in the hall with the outlet at
\* x = 3 it can stand in the right corner
C20_Witness ==
    /\ pc = "built"
    /\ config.room_w = 4
    /\ config.outlets = <<<<1, 1>>>>
    /\ MirrorConfig(config).outlets = <<<<3, 1>>>>
    /\ \E s \in Solutions(config, booths) :
          /\ booths[1].want_outlet
          /\ s[1].x = 0
          /\ \E t \in Solutions(MirrorConfig(config), MirrorBooths(config, booths)) :
                /\ t[1].x = 3
                /\ PlacementOf(t) = MirrorPlacement(config, s)
                /\ Objective(MirrorConfig(config), MirrorBooths(config, booths), t)
                      = Objective(config, booths, s)

(***************************************************************************)
(* The rotation rule and the walls a booth stands against.                 *)
(***************************************************************************)
\* the emitted row p has a vertical edge on the left or right hall boundary or
\* on the line of a vertical inner wall that counts as a wall
OnVerticalWall(p) ==
    \/ p.x_mm = 0
    \/ RowRight(p) = config.room_w
    \/ /\ config.inner_as_wall
       /\ \E k \in DOMAIN config.inner_walls :
             LET w == config.inner_walls[k]
             IN  /\ w.p1[1] = w.p2[1]
                 /\ p.x_mm = w.p1[1] \/ RowRight(p) = w.p1[1]
                 /\ 2 * Min2(w.p1[2], w.p2[2]) <= 2 * p.y_mm + p.depth_mm
                 /\ 2 * p.y_mm + p.depth_mm <= 2 * Max2(w.p1[2], w.p2[2])

OnHorizontalWall(p) ==
    \/ p.y_mm = 0
    \/ RowTop(p) = config.room_h
    \/ /\ config.inner_as_wall
       /\ \E k \in DOMAIN config.inner_walls :
             LET w == config.inner_walls[k]
             IN  /\ w.p1[1] # w.p2[1] /\ w.p1[2] = w.p2[2]
                 /\ p.y_mm = w.p1[2] \/ RowTop(p) = w.p1[2]
                 /\ 2 * Min2(w.p1[1], w.p2[1]) <= 2 * p.x_mm + p.width_mm
                 /\ 2 * p.x_mm + p.width_mm <= 2 * Max2(w.p1[1], w.p2[1])

LongSide(b) == Max2(b.w, b.h)

\* C21: rotation aligns the long edge with the touched wall: under a hard
\* wall-contact requirement every booth that is not rail-required is emitted
\* with an edge of length max(w, h) lying along a wall it touches (its
\* vertical extent along a vertical wall, or its horizontal extent along a
\* horizontal wall).
C21_LongEdgeAlongWall ==
    (Emitted /\ (config.hard_wall \/ config.wall_default_hard)) =>
        \A i \in DOMAIN Rows :
            ~RailRequired(i) =>
                \/ OnVerticalWall(Rows[i]) /\ Rows[i].depth_mm = LongSide(booths[i])
                \/ OnHorizontalWall(Rows[i]) /\ Rows[i].width_mm = LongSide(booths[i])

(***************************************************************************)
(* Booths that share an edge.                                              *)
(***************************************************************************)
\* the positions and rotations of booth i with its effective size, inside
\* the hall's depth
Posed(i) ==
    {g \in VarDomains(config) :
        EffSize(config, booths[i], g) /\ top_edge(g) <= config.room_h}

\* gi at the left wall, gj against it and ending at the right wall
SideBySide(gi, gj) ==
    /\ gi.x = 0
    /\ gj.x = gi.x + gi.w_eff
    /\ gj.x + gj.w_eff = config.room_w

\* C22: with A = 0 two booths whose effective widths sum to the hall width
\* and that sit side by side sharing an edge (x_i = 0, x_j = x_i + w_eff_i,
\* x_j + w_eff_j = W) satisfy containment and non-overlap, and such a pair
\* of assignments, each meeting the constraints on its own booth, is a
\* solution: both bounds are non-strict.
C22_SharedEdgeFeasible ==
    (pc = "built" /\ config.aisle = 0) =>
        \A i \in DOMAIN booths : \A j \in DOMAIN booths :
            i # j =>
                /\ \A gi \in Posed(i) : \A gj \in Posed(j) :
                      SideBySide(gi, gj) =>
                          /\ Containment(config, gi)
                          /\ Containment(config, gj)
                          /\ NonOverlap(config, gi, gj)
                /\ (Len(booths) = 2 /\ i < j /\ ~FrontActive(config)) =>
                      \A ai \in BoothAssignments(config, booths[i]) :
                          \A aj \in BoothAssignments(config, booths[j]) :
                              (SideBySide(ai, aj) \/ SideBySide(aj, ai)) =>
                                  <<ai, aj>> \in Solutions(config, booths)

\* two booths emitted side by side over the whole width of the hall, their
\* facing edges overlapping
C22_Witness ==
    /\ Emitted
    /\ config.aisle = 0
    /\ Len(Rows) = 2
    /\ Rows[1].x_mm = 0
    /\ Rows[2].x_mm = RowRight(Rows[1])
    /\ RowRight(Rows[2]) = config.room_w
    /\ Rows[1].y_mm < RowTop(Rows[2])
    /\ Rows[2].y_mm < RowTop(Rows[1])

(***************************************************************************)
(* The two tiers of the rotation rule.                                     *)
(***************************************************************************)
\* every assignment of booth i's variables that meets the constraints on the
\* booth other than the rotation rule
Candidates(i) ==
    UNION {{a \in BoothLiterals(config, booths[i], g) :
               /\ AttachCount(config, booths[i], a)
               /\ WallContact(config, booths[i], a)
               /\ FrontDirection(config, booths[i], a)} :
           g \in BoothGeometry(config, booths[i])}

\* the touch tier decides: exactly one axis of touch is active and the
\* rotation is the one it asks for
TouchTierDecides(a) ==
    \/ v_touch_any(a) /\ ~h_touch_any(a) /\ a.rot = 1
    \/ h_touch_any(a) /\ ~v_touch_any(a) /\ a.rot = 0

\* C23: the rotation rule is two-tier with touch taking priority: a booth
\* with exactly one axis of wall touch active has the rotation of that axis
\* (r = 1 for vertical-only, r = 0 for horizontal-only), and the band
\* indicators force the rotation only otherwise, so an assignment whose touch
\* tier yields its rotation is never excluded by the band tier.
C23_TouchBeforeBand ==
    pc = "built" =>
        \A i \in DOMAIN booths :
            ~RailRequired(i) =>
                /\ \A a \in BoothAssignments(config, booths[i]) :
                      /\ (v_touch_any(a) /\ ~h_touch_any(a)) => a.rot = 1
                      /\ (h_touch_any(a) /\ ~v_touch_any(a)) => a.rot = 0
                /\ \A a \in Candidates(i) :
                      TouchTierDecides(a) => a \in BoothAssignments(config, booths[i])

\* C24: the touch/band rotation rule applies only to booths not pinned by a
\* rail: a rail-required booth has the rotation of the rail it attaches to
\* (r = 0 on a horizontal rail, r = 1 on a vertical one), and every assignment
\* that satisfies the rail attachment and the other hard constraints, with no
\* touch indicator active, is feasible whichever wall bands the booth lies in.
C24_RailBoothsIgnoreBands ==
    pc = "built" =>
        \A i \in DOMAIN booths :
            RailRequired(i) =>
                /\ \A a \in BoothAssignments(config, booths[i]) :
                      \A l \in a.att :
                          a.rot = (IF l.kind \in {"v_left", "v_right"} THEN 1 ELSE 0)
                /\ \A a \in Candidates(i) :
                      (a.touch = {} /\ a.iw_touch = {}) =>
                          a \in BoothAssignments(config, booths[i])

(***************************************************************************)
(* The front of a booth.                                                   *)
(***************************************************************************)
\* C25: with front_clear_mode = hard and F > 0 the front of a rail-required
\* booth is the outward normal of its attached rail face: bottom edge on a
\* horizontal rail gives front = up, top edge on it front = down, left edge
\* on a vertical rail front = right, right edge on it front = left.
C25_RailFrontOutward ==
    (Solved /\ FrontActive(config)) =>
        \A i \in DOMAIN sol :
            RailRequired(i) =>
                /\ sol[i].att # {}
                /\ \A l \in sol[i].att :
                      LET p1 == config.rails_cfg[l.r].p1
                      IN  CASE l.kind = "h_bottom" ->
                                 sol[i].y = p1[2] /\ sol[i].fr = "up"
                            [] l.kind = "h_top" ->
                                 top_edge(sol[i]) = p1[2] /\ sol[i].fr = "down"
                            [] l.kind = "v_right" ->
                                 sol[i].x = p1[1] /\ sol[i].fr = "right"
                            [] l.kind = "v_left" ->
                                 right_edge(sol[i]) = p1[1] /\ sol[i].fr = "left"

\* a rail-required booth emitted with its left edge on a vertical rail,
\* facing right, next to a second booth
C25_Witness ==
    /\ Emitted
    /\ FrontActive(config)
    /\ Len(sol) = 2
    /\ \E i \in DOMAIN sol :
          /\ RailRequired(i)
          /\ \E l \in sol[i].att : l.kind = "v_right"
          /\ sol[i].fr = "right"

(***************************************************************************)
(* Preferred rectangles.                                                   *)
(***************************************************************************)
\* the numbers among the bounds written in the explored tables
BoundValue == ("0" :> 0) @@ ("1" :> 1) @@ ("2" :> 2) @@ (" 2 " :> 2) @@ ("2.0" :> 2)

\* all four bounds of row i are present
RowComplete(i) == \A k \in 1..4 : booths[i].pref_cells[k] \in DOMAIN BoundValue

RowBound(i, k) == BoundValue[booths[i].pref_cells[k]]

\* row i is hard: its flag reads 1, true or yes, or it has no flag and the
\* configured default is hard
RowHard(i) ==
    \/ booths[i].pref_area_hard \in {"1", "TRUE", " yes "}
    \/ /\ booths[i].pref_area_hard \in {None, ""}
       /\ config.preferred_area_default \in {"hard", "Hard"}

RowInside(i, a) ==
    /\ a.x >= RowBound(i, 1)
    /\ a.y >= RowBound(i, 2)
    /\ a.x + a.w_eff <= RowBound(i, 3)
    /\ a.y + a.h_eff <= RowBound(i, 4)

WithoutPref(bs) == [i \in DOMAIN bs |-> [bs[i] EXCEPT !.pref = <<>>]]

\* C26: a booth with a complete preferred rectangle that is hard (flag in
\* {1, true, yes}, or preferred_area_default = hard when the row has no flag)
\* is emitted fully inside the rectangle; a soft rectangle excludes no
\* placement, and its bonus indicator is true only for a booth inside.
C26_PreferredArea ==
    /\ Emitted =>
          \A i \in DOMAIN Rows :
              (RowComplete(i) /\ RowHard(i)) =>
                  /\ Rows[i].x_mm >= RowBound(i, 1)
                  /\ Rows[i].y_mm >= RowBound(i, 2)
                  /\ RowRight(Rows[i]) <= RowBound(i, 3)
                  /\ RowTop(Rows[i]) <= RowBound(i, 4)
    /\ (pc = "built" /\ \A i \in DOMAIN booths : ~(RowComplete(i) /\ RowHard(i))) =>
          {PlacementOf(s) : s \in Solutions(config, booths)}
              = {PlacementOf(s) : s \in Solutions(config, WithoutPref(booths))}
    /\ Solved =>
          \A i \in DOMAIN sol :
              sol[i].inside_pref => (RowComplete(i) /\ RowInside(i, sol[i]))

\* a row without a flag under the default hard, emitted inside its rectangle
\* and up to its upper bound
C26_Witness ==
    /\ Emitted
    /\ config.preferred_area_default = "Hard"
    /\ booths[1].pref_area_hard = ""
    /\ booths[1].pref_cells = <<"0", "0", " 2 ", "2.0">>
    /\ Rows[1].rotated = 1 /\ RowTop(Rows[1]) = 2

(***************************************************************************)
(* The outlet a booth asks for.                                            *)
(***************************************************************************)
\* twice the L1 distance from the centre of the emitted row p to outlet o
RowDist2(p, o) ==
    Abs(2 * p.x_mm + p.width_mm - 2 * o[1]) + Abs(2 * p.y_mm + p.depth_mm - 2 * o[2])

\* every outlet-wanting booth of the solution s is within R of some outlet
WantersWithin(s, R) ==
    \A i \in DOMAIN s :
        booths[i].want_outlet =>
            \E k \in DOMAIN config.outlets :
                Abs(2 * s[i].x + s[i].w_eff - 2 * config.outlets[k][1])
                + Abs(2 * s[i].y + s[i].h_eff - 2 * config.outlets[k][2]) <= 2 * R

Unbounded == [config EXCEPT !.demand_hard_r = 0]

\* C27: with an outlet and outlet_demand_hard_radius_mm R > 0 every
\* outlet-wanting booth of an emitted placement has its centre within L1
\* distance R of the nearest outlet, on doubled integers (min over outlets of
\* |2x + w_eff - 2ox| + |2y + h_eff - 2oy| <= 2R); nothing else is excluded by
\* R: the solutions are those of R = 0 that meet this bound, so booths that
\* want no outlet are not constrained and R = 0 excludes nothing.
C27_OutletDemandRadius ==
    /\ (Emitted /\ config.outlets # <<>> /\ config.demand_hard_r > 0) =>
          \A i \in DOMAIN Rows :
              booths[i].want_outlet =>
                  \E k \in DOMAIN config.outlets :
                      /\ RowDist2(Rows[i], config.outlets[k]) <= 2 * config.demand_hard_r
                      /\ \A m \in DOMAIN config.outlets :
                            RowDist2(Rows[i], config.outlets[k])
                                <= RowDist2(Rows[i], config.outlets[m])
    /\ (pc = "built" /\ config.outlets # <<>>) =>
          /\ config.demand_hard_r > 0 =>
                Solutions(config, booths)
                    = {s \in Solutions(Unbounded, booths) :
                          WantersWithin(s, config.demand_hard_r)}
          /\ config.demand_hard_r = 0 =>
                Solutions(config, booths)
                    = Solutions([config EXCEPT
                                    !.demand_hard_r = config.room_w + config.room_h],
                                booths)

\* a booth emitted exactly R from the second of two outlets and farther from
\* the first
C27_Witness ==
    /\ Emitted
    /\ Len(config.outlets) = 2
    /\ config.demand_hard_r = 1
    /\ booths[1].want_outlet
    /\ RowDist2(Rows[1], config.outlets[2]) = 2
    /\ RowDist2(Rows[1], config.outlets[1]) > 2

(***************************************************************************)
(* Wall bands.                                                             *)
(***************************************************************************)
InLeftBand(a) == a.x <= config.wall_band
InRightBand(a) == a.x + a.w_eff >= config.room_w - config.wall_band
InBottomBand(a) == a.y <= config.wall_band
InTopBand(a) == a.y + a.h_eff >= config.room_h - config.wall_band

InSomeBand(a) == InLeftBand(a) \/ InRightBand(a) \/ InBottomBand(a) \/ InTopBand(a)

\* C28: the wall-band indicators are exact biconditionals (left: x <= B,
\* right: x + w_eff >= W - B, bottom: y <= B, top: y + h_eff >= H - B); with
\* enforce_outer_wall_band every booth of an emitted placement is in at least
\* one band, and the option excludes nothing else: without it the booths
\* outside all bands are allowed as well.
C28_WallBands ==
    /\ Solved =>
          \A i \in DOMAIN sol :
              /\ band_left(config, sol[i]) <=> InLeftBand(sol[i])
              /\ band_right(config, sol[i]) <=> InRightBand(sol[i])
              /\ band_bottom(config, sol[i]) <=> InBottomBand(sol[i])
              /\ band_top(config, sol[i]) <=> InTopBand(sol[i])
    /\ (Emitted /\ config.enforce_outer_band) =>
          \A i \in DOMAIN Rows :
              \/ Rows[i].x_mm <= config.wall_band
              \/ RowRight(Rows[i]) >= config.room_w - config.wall_band
              \/ Rows[i].y_mm <= config.wall_band
              \/ RowTop(Rows[i]) >= config.room_h - config.wall_band
    /\ pc = "built" =>
          Solutions([config EXCEPT !.enforce_outer_band = TRUE], booths)
              = {s \in Solutions([config EXCEPT !.enforce_outer_band = FALSE], booths) :
                    \A i \in DOMAIN s : InSomeBand(s[i])}

\* under the option, a booth emitted inside a band of width 1 and off every
\* wall
C28_Witness ==
    /\ Emitted
    /\ config.enforce_outer_band
    /\ config.wall_band = 1
    /\ Rows[1].x_mm > 0 /\ RowRight(Rows[1]) < config.room_w
    /\ Rows[1].y_mm > 0 /\ RowTop(Rows[1]) < config.room_h

(***************************************************************************)
(* Touch and band on the outer walls.                                      *)
(***************************************************************************)
BandOf(a, t) ==
    CASE t = "left" -> band_left(config, a)
      [] t = "right" -> band_right(config, a)
      [] t = "bottom" -> band_bottom(config, a)
      [] t = "top" -> band_top(config, a)

\* C29: without inner-wall touch literals (no inner walls, or inner walls
\* not counted as wall contact) and with B >= 0 the two tiers of the rotation
\* rule never contradict each other: an active outer-wall touch literal
\* implies the band indicator of the same wall, so where the touch tier
\* forces a rotation the band tier is silent or forces the same one, and no
\* assignment whose rotation the touch tier decides is excluded by the band
\* tier.
C29_TiersAgreeOnOuterWalls ==
    (pc = "built" /\ IwLiterals(config) = {}) =>
        \A i \in DOMAIN booths : \A a \in Candidates(i) :
            /\ \A t \in a.touch : BandOf(a, t)
            /\ (v_touch_any(a) /\ ~h_touch_any(a)) =>
                  ~(h_band(config, a) /\ ~v_band(config, a))
            /\ (h_touch_any(a) /\ ~v_touch_any(a)) =>
                  ~(v_band(config, a) /\ ~h_band(config, a))
            /\ TouchTierDecides(a) => a \in BoothAssignments(config, booths[i])

\* a booth emitted with only its left touch literal active, off the bottom
\* and top bands: both tiers ask for r = 1
C29_Witness ==
    /\ Emitted
    /\ IwLiterals(config) = {}
    /\ \E i \in DOMAIN sol :
          /\ sol[i].touch = {"left"}
          /\ v_band(config, sol[i]) /\ ~h_band(config, sol[i])
          /\ sol[i].rot = 1
          /\ booths[i].w # booths[i].h

\* C30: with front_clear_mode = hard and F > 0 the front of every booth that
\* is not rail-required is consistent with its rotation in every solution: a
\* booth with r = 1 faces left or right and a booth with r = 0 faces up or
\* down, also when both opposite walls/bands of the axis are active at once.
C30_FrontFollowsRotation ==
    (Solved /\ FrontActive(config)) =>
        \A i \in DOMAIN sol :
            ~RailRequired(i) =>
                /\ sol[i].rot = 1 => sol[i].fr \in {"left", "right"}
                /\ sol[i].rot = 0 => sol[i].fr \in {"up", "down"}


====
